---- MODULE Spec2Model ----
(***************************************************************************)
(* SmartFormsGPT claim adjudication: ClaimRules (src/logic/rules.py) and   *)
(* DecisionEngine (src/logic/decision_engine.py) over one claim object     *)
(* whose fields are freely assignable (src/schemas/base_claim.py: the      *)
(* pydantic model validates at construction only), the submission page     *)
(* (src/streamlit_app.py), concurrent callers of the duplicate check, and  *)
(* ClaimValidator (src/utils/validators.py).                               *)
(*                                                                         *)
(* Conventions.                                                            *)
(*  - An Optional value is None == <<>> or Some(x) == <<x>>.               *)
(*  - A text on which the code computes (strip, len, concatenation) is a   *)
(*    sequence of one-character strings.                                   *)
(*  - A datetime is an integer number of clock ticks; all datetimes are    *)
(*    naive UTC, as the code's datetime.utcnow() comparisons presuppose.   *)
(*  - An amount of a claim record is an integer number of dollars; an      *)
(*    amount handed to the BaseClaim constructor or to ClaimValidator is   *)
(*    an integer number of thousandths of a dollar.                        *)
(*  - A confidence or documentation score is an integer number of          *)
(*    thousandths (1.0 is 1000).  Every score the code produces is a       *)
(*    multiple of 0.1 and every confidence a multiple of 0.01, and the     *)
(*    floating-point comparisons with 0.5 and 0.8 agree with the exact     *)
(*    ones on these values (k/5.0 is correctly rounded, 1.0*x = x).        *)
(*  - A reason string is a sequence of its fragments.                      *)
(***************************************************************************)
EXTENDS Integers, Sequences, FiniteSets, TLC

VARIABLES
    claim,              \* the claim object the caller holds (BaseClaim)
    processed_claims,   \* ClaimRules.processed_claims of the engine's rules
    now,                \* the clock read by datetime.utcnow()
    ret,                \* the value returned by the most recent call
    seen,               \* history: processed_claims as it was before that call
    checked,            \* history: the (patient_id, day, amount) of every claim
                        \* check_duplicate has been run on
    was_checked,        \* history: check_duplicate ran in the most recent call
                        \* and had been run on the same triple before it
    arg,                \* the argument of the most recent call, when it is not
                        \* the held claim (a list of claims, a text, a map)
    claims,             \* st.session_state.claims of the application
    threads,            \* the concurrent callers of check_duplicate
    events,             \* history: the ledger accesses of the callers, in order
    engines             \* the ledgers of the further DecisionEngine instances

vars == <<claim, processed_claims, now, ret, seen, checked, was_checked,
          arg, claims, threads, events, engines>>

\* the state outside the engine calls on the held claim
app == <<arg, claims, threads, events, engines>>

----------------------------------------------------------------------------
(* Bounds of the model.                                                     *)

TicksPerDay == 2        \* clock resolution: ticks in one calendar day
MaxTicks == 1           \* how far the clock advances
MaxLedger == 1          \* keys the ledger may hold (Spec, SpecBasic)
MaxChecked == 3         \* keys the ledger may hold (SpecLedger)
MaxThreads == 3         \* concurrent callers of check_duplicate (SpecRace)
MaxBatch == 2           \* claims in one batch (SpecBatch)
MaxClaims == 2          \* claims the session keeps (SpecApp)
MaxEngines == 2         \* further DecisionEngine instances (SpecEngines)

----------------------------------------------------------------------------
(* Python values.                                                           *)

None == <<>>
Some(x) == <<x>>

\* Truthiness of a text, a list or an Optional datetime: empty and None are falsy.
NonEmpty(x) == x # <<>>

\* Truthiness of an Optional text or list: None and the empty value are falsy.
TruthyOpt(o) == o # None /\ o[1] # <<>>

Whitespace == {" ", "\t", "\n"}

RECURSIVE lstrip(_)
lstrip(s) ==
    IF s # <<>> /\ Head(s) \in Whitespace THEN lstrip(Tail(s)) ELSE s

RECURSIVE rstrip(_)
rstrip(s) ==
    IF s # <<>> /\ s[Len(s)] \in Whitespace
    THEN rstrip(SubSeq(s, 1, Len(s) - 1)) ELSE s

\* str.strip()
strip(s) == rstrip(lstrip(s))

\* datetime.date(): the calendar day of a timestamp
date(t) == t \div TicksPerDay

----------------------------------------------------------------------------
(* ClaimStatus (src/schemas/base_claim.py).                                 *)

DRAFT == "draft"
SUBMITTED == "submitted"
UNDER_REVIEW == "under_review"
APPROVED == "approved"
REJECTED == "rejected"
PENDING_INFO == "pending_info"

ClaimStatus == {DRAFT, SUBMITTED, UNDER_REVIEW, APPROVED, REJECTED, PENDING_INFO}

----------------------------------------------------------------------------
(* ClaimRules (src/logic/rules.py).                                         *)

MAX_CLAIM_AMOUNT == 100000
AUTO_APPROVE_THRESHOLD == 1000
MAX_SERVICE_AGE_DAYS == 365
MIN_DOCUMENTATION_SCORE == 500

\* variant: the patient name is measured untrimmed
validate_basic_info_untrimmed(c) ==
    IF ~ ( /\ NonEmpty(c.patient_name)
           /\ NonEmpty(c.patient_id)
           /\ c.service_date # None
           /\ c.provider_name # ""
           /\ c.total_amount # 0 )
    THEN FALSE
    ELSE IF Len(c.patient_name) < 2
    THEN FALSE
    ELSE TRUE

validate_basic_info(c) ==
    IF ~ ( /\ NonEmpty(c.patient_name)
           /\ NonEmpty(c.patient_id)
           /\ c.service_date # None
           /\ c.provider_name # ""
           /\ c.total_amount # 0 )
    THEN FALSE
    ELSE IF Len(strip(c.patient_name)) < 2
    THEN FALSE
    ELSE TRUE

\* variant: the limit applied is the schema's 1000000
check_amount_limit_schema_limit(c) ==
    IF c.total_amount > 1000000 THEN FALSE
    ELSE IF c.total_amount <= 0 THEN FALSE
    ELSE TRUE

\* variant: the limit applied is the auto-approve threshold
check_amount_limit_auto_threshold(c) ==
    IF c.total_amount > AUTO_APPROVE_THRESHOLD THEN FALSE
    ELSE IF c.total_amount <= 0 THEN FALSE
    ELSE TRUE

check_amount_limit(c) ==
    IF c.total_amount > MAX_CLAIM_AMOUNT THEN FALSE
    ELSE IF c.total_amount <= 0 THEN FALSE
    ELSE TRUE

\* variant: a future service date is accepted
check_service_date_future_accepted(c, t) ==
    LET max_age == t - MAX_SERVICE_AGE_DAYS * TicksPerDay
    IN  IF c.service_date[1] < max_age THEN FALSE
        ELSE TRUE

\* t is the value of datetime.utcnow() read by the call
check_service_date(c, t) ==
    LET max_age == t - MAX_SERVICE_AGE_DAYS * TicksPerDay
    IN  IF c.service_date[1] > t THEN FALSE
        ELSE IF c.service_date[1] < max_age THEN FALSE
        ELSE TRUE

\* variant: the key holds the service date with its time of day
claim_key_with_time(c) ==
    c.patient_id \o <<"_", ToString(c.service_date[1]), "_",
                      ToString(c.total_amount)>>

\* f"{claim.patient_id}_{claim.service_date.date()}_{claim.total_amount}"
claim_key(c) ==
    c.patient_id \o <<"_", ToString(date(c.service_date[1])), "_",
                      ToString(c.total_amount)>>

\* variant: the key is recorded before it is looked up
check_duplicate_record_first(c, pc) ==
    [result |-> TRUE, processed_claims |-> pc \cup {claim_key(c)}]

\* variant: the key is looked up and never recorded
check_duplicate_lookup_only(c, pc) ==
    [result |-> claim_key(c) \in pc, processed_claims |-> pc]

\* check_duplicate on ledger pc: the value returned and the ledger left behind
check_duplicate(c, pc) ==
    IF claim_key(c) \in pc
    THEN [result |-> TRUE, processed_claims |-> pc]
    ELSE [result |-> FALSE, processed_claims |-> pc \cup {claim_key(c)}]

\* variant: the points are divided by 4.0, the maximum without the bonus
check_documentation_of_four(c) ==
    LET max_score == 40
        s1 == IF TruthyOpt(c.description) /\ Len(c.description[1]) > 10
              THEN 10 ELSE 0
        s2 == IF TruthyOpt(c.diagnosis_codes) /\ Len(c.diagnosis_codes[1]) > 0
              THEN 15 ELSE 0
        s3 == IF TruthyOpt(c.procedure_codes) /\ Len(c.procedure_codes[1]) > 0
              THEN 15 ELSE 0
        s4 == IF c.provider_id # None /\ c.provider_id[1] # "" THEN 5 ELSE 0
        s5 == IF c.total_amount > 5000
              THEN IF TruthyOpt(c.diagnosis_codes) /\ TruthyOpt(c.procedure_codes)
                   THEN 5 ELSE 0
              ELSE 5
        score == s1 + s2 + s3 + s4 + s5
    IN  (score * 1000) \div max_score

\* variant: a description of exactly 10 characters earns its point
check_documentation_ten_characters(c) ==
    LET max_score == 50
        s1 == IF TruthyOpt(c.description) /\ Len(c.description[1]) >= 10
              THEN 10 ELSE 0
        s2 == IF TruthyOpt(c.diagnosis_codes) /\ Len(c.diagnosis_codes[1]) > 0
              THEN 15 ELSE 0
        s3 == IF TruthyOpt(c.procedure_codes) /\ Len(c.procedure_codes[1]) > 0
              THEN 15 ELSE 0
        s4 == IF c.provider_id # None /\ c.provider_id[1] # "" THEN 5 ELSE 0
        s5 == IF c.total_amount > 5000
              THEN IF TruthyOpt(c.diagnosis_codes) /\ TruthyOpt(c.procedure_codes)
                   THEN 5 ELSE 0
              ELSE 5
        score == s1 + s2 + s3 + s4 + s5
    IN  (score * 1000) \div max_score

\* variant: the provider id is worth 1.0 and the description 0.5
check_documentation_provider_point(c) ==
    LET max_score == 50
        s1 == IF TruthyOpt(c.description) /\ Len(c.description[1]) > 10
              THEN 5 ELSE 0
        s2 == IF TruthyOpt(c.diagnosis_codes) /\ Len(c.diagnosis_codes[1]) > 0
              THEN 15 ELSE 0
        s3 == IF TruthyOpt(c.procedure_codes) /\ Len(c.procedure_codes[1]) > 0
              THEN 15 ELSE 0
        s4 == IF c.provider_id # None /\ c.provider_id[1] # "" THEN 10 ELSE 0
        s5 == IF c.total_amount > 5000
              THEN IF TruthyOpt(c.diagnosis_codes) /\ TruthyOpt(c.procedure_codes)
                   THEN 5 ELSE 0
              ELSE 5
        score == s1 + s2 + s3 + s4 + s5
    IN  (score * 1000) \div max_score

\* points are counted in tenths (1.5 points is 15), the score in thousandths
check_documentation(c) ==
    LET max_score == 50
        s1 == IF TruthyOpt(c.description) /\ Len(c.description[1]) > 10
              THEN 10 ELSE 0
        s2 == IF TruthyOpt(c.diagnosis_codes) /\ Len(c.diagnosis_codes[1]) > 0
              THEN 15 ELSE 0
        s3 == IF TruthyOpt(c.procedure_codes) /\ Len(c.procedure_codes[1]) > 0
              THEN 15 ELSE 0
        s4 == IF c.provider_id # None /\ c.provider_id[1] # "" THEN 5 ELSE 0
        s5 == IF c.total_amount > 5000
              THEN IF TruthyOpt(c.diagnosis_codes) /\ TruthyOpt(c.procedure_codes)
                   THEN 5 ELSE 0
              ELSE 5
        score == s1 + s2 + s3 + s4 + s5
    IN  (score * 1000) \div max_score

\* variant: an amount equal to the threshold needs review
requires_manual_review_at_threshold(c, pc) ==
    IF c.total_amount >= AUTO_APPROVE_THRESHOLD
    THEN [result |-> TRUE, processed_claims |-> pc, dup_check |-> None]
    ELSE IF check_documentation(c) < MIN_DOCUMENTATION_SCORE
    THEN [result |-> TRUE, processed_claims |-> pc, dup_check |-> None]
    ELSE LET dup == check_duplicate(c, pc)
         IN  [result |-> dup.result, processed_claims |-> dup.processed_claims,
              dup_check |-> Some(dup.result)]

\* variant: the duplicate test of requires_manual_review only looks the key up
requires_manual_review_lookup_only(c, pc) ==
    IF c.total_amount > AUTO_APPROVE_THRESHOLD
    THEN [result |-> TRUE, processed_claims |-> pc, dup_check |-> None]
    ELSE IF check_documentation(c) < MIN_DOCUMENTATION_SCORE
    THEN [result |-> TRUE, processed_claims |-> pc, dup_check |-> None]
    ELSE [result |-> claim_key(c) \in pc, processed_claims |-> pc,
          dup_check |-> Some(claim_key(c) \in pc)]

\* requires_manual_review on ledger pc: the value returned, the ledger left
\* behind, and what check_duplicate returned if it was called
requires_manual_review(c, pc) ==
    IF c.total_amount > AUTO_APPROVE_THRESHOLD
    THEN [result |-> TRUE, processed_claims |-> pc, dup_check |-> None]
    ELSE IF check_documentation(c) < MIN_DOCUMENTATION_SCORE
    THEN [result |-> TRUE, processed_claims |-> pc, dup_check |-> None]
    ELSE LET dup == check_duplicate(c, pc)
         IN  [result |-> dup.result, processed_claims |-> dup.processed_claims,
              dup_check |-> Some(dup.result)]

----------------------------------------------------------------------------
(* DecisionEngine (src/logic/decision_engine.py).                           *)

MissingBasicInfo == <<"Missing or invalid basic information">>
AmountExceeds(a) == <<"Claim amount $", ToString(a), " ", "exceeds", " policy limit">>
ServiceDateRange == <<"Service date", " is outside acceptable range">>
PotentialDuplicate == <<"Potential duplicate claim detected">>
InsufficientDocumentation == <<"Insufficient documentation provided">>
AutoApproved == <<"Auto-approved", ": All criteria met">>
ManualReview == <<"Requires manual review">>

\* the product of two values counted in thousandths
Times(a, b) == (a * b) \div 1000

\* what a call of evaluate_claim leaves: the returned tuple, the ledger, and
\* what check_duplicate returned if it was called
Outcome(status, reasons, confidence, pc, dup_check) ==
    [status |-> status, reasons |-> reasons, confidence |-> confidence,
     processed_claims |-> pc, dup_check |-> dup_check]

\* variant: a detected duplicate ends the evaluation
after_checks_duplicate_returns(c, pc) ==
    LET dup == check_duplicate(c, pc)
        doc_score == check_documentation(c)
        confidence == Times(1000, doc_score)
    IN  IF dup.result
        THEN Outcome(UNDER_REVIEW, <<PotentialDuplicate>>, Times(1000, 700),
                     dup.processed_claims, Some(dup.result))
        ELSE IF doc_score < 500
        THEN Outcome(PENDING_INFO, <<InsufficientDocumentation>>, doc_score,
                     dup.processed_claims, Some(dup.result))
        ELSE IF c.total_amount < 1000 /\ confidence > 800
        THEN Outcome(APPROVED, <<AutoApproved>>, confidence,
                     dup.processed_claims, Some(dup.result))
        ELSE Outcome(UNDER_REVIEW, <<ManualReview>>, confidence,
                     dup.processed_claims, Some(dup.result))

\* variant: insufficient documentation returns the running confidence
after_checks_running_confidence(c, pc) ==
    LET dup == check_duplicate(c, pc)
        reasons == IF dup.result THEN <<PotentialDuplicate>> ELSE <<>>
        confidence == IF dup.result THEN Times(1000, 700) ELSE 1000
        doc_score == check_documentation(c)
        confidence2 == Times(confidence, doc_score)
    IN  IF doc_score < 500
        THEN Outcome(PENDING_INFO, Append(reasons, InsufficientDocumentation),
                     confidence, dup.processed_claims, Some(dup.result))
        ELSE IF c.total_amount < 1000 /\ confidence2 > 800
        THEN Outcome(APPROVED, Append(reasons, AutoApproved), confidence2,
                     dup.processed_claims, Some(dup.result))
        ELSE Outcome(UNDER_REVIEW, Append(reasons, ManualReview), confidence2,
                     dup.processed_claims, Some(dup.result))

\* variant: a confidence of exactly 0.8 is enough to approve
after_checks_at_least(c, pc) ==
    LET dup == check_duplicate(c, pc)
        reasons == IF dup.result THEN <<PotentialDuplicate>> ELSE <<>>
        confidence == IF dup.result THEN Times(1000, 700) ELSE 1000
        doc_score == check_documentation(c)
        confidence2 == Times(confidence, doc_score)
    IN  IF doc_score < 500
        THEN Outcome(PENDING_INFO, Append(reasons, InsufficientDocumentation),
                     doc_score, dup.processed_claims, Some(dup.result))
        ELSE IF c.total_amount < 1000 /\ confidence2 >= 800
        THEN Outcome(APPROVED, Append(reasons, AutoApproved), confidence2,
                     dup.processed_claims, Some(dup.result))
        ELSE Outcome(UNDER_REVIEW, Append(reasons, ManualReview), confidence2,
                     dup.processed_claims, Some(dup.result))

\* variant: a detected duplicate takes the confidence down to 0.9
after_checks_nine_tenths(c, pc) ==
    LET dup == check_duplicate(c, pc)
        reasons == IF dup.result THEN <<PotentialDuplicate>> ELSE <<>>
        confidence == IF dup.result THEN Times(1000, 900) ELSE 1000
        doc_score == check_documentation(c)
        confidence2 == Times(confidence, doc_score)
    IN  IF doc_score < 500
        THEN Outcome(PENDING_INFO, Append(reasons, InsufficientDocumentation),
                     doc_score, dup.processed_claims, Some(dup.result))
        ELSE IF c.total_amount < 1000 /\ confidence2 > 800
        THEN Outcome(APPROVED, Append(reasons, AutoApproved), confidence2,
                     dup.processed_claims, Some(dup.result))
        ELSE Outcome(UNDER_REVIEW, Append(reasons, ManualReview), confidence2,
                     dup.processed_claims, Some(dup.result))

\* variant: a claim sent back for its documentation is not kept in the ledger
after_checks_pending_not_recorded(c, pc) ==
    LET dup == check_duplicate(c, pc)
        reasons == IF dup.result THEN <<PotentialDuplicate>> ELSE <<>>
        confidence == IF dup.result THEN Times(1000, 700) ELSE 1000
        doc_score == check_documentation(c)
        confidence2 == Times(confidence, doc_score)
    IN  IF doc_score < 500
        THEN Outcome(PENDING_INFO, Append(reasons, InsufficientDocumentation),
                     doc_score, pc, Some(dup.result))
        ELSE IF c.total_amount < 1000 /\ confidence2 > 800
        THEN Outcome(APPROVED, Append(reasons, AutoApproved), confidence2,
                     dup.processed_claims, Some(dup.result))
        ELSE Outcome(UNDER_REVIEW, Append(reasons, ManualReview), confidence2,
                     dup.processed_claims, Some(dup.result))

\* evaluate_claim once the basic info, amount and date checks have passed:
\* the duplicate check, the documentation score and the decision
after_checks(c, pc) ==
    LET dup == check_duplicate(c, pc)
        reasons == IF dup.result THEN <<PotentialDuplicate>> ELSE <<>>
        confidence == IF dup.result THEN Times(1000, 700) ELSE 1000
        doc_score == check_documentation(c)
        confidence2 == Times(confidence, doc_score)
    IN  IF doc_score < 500
        THEN Outcome(PENDING_INFO, Append(reasons, InsufficientDocumentation),
                     doc_score, dup.processed_claims, Some(dup.result))
        ELSE IF c.total_amount < 1000 /\ confidence2 > 800
        THEN Outcome(APPROVED, Append(reasons, AutoApproved), confidence2,
                     dup.processed_claims, Some(dup.result))
        ELSE Outcome(UNDER_REVIEW, Append(reasons, ManualReview), confidence2,
                     dup.processed_claims, Some(dup.result))

\* variant: the documentation is scored before the amount and the date
evaluate_claim_documentation_first(c, pc, t) ==
    IF ~ validate_basic_info(c)
    THEN Outcome(PENDING_INFO, <<MissingBasicInfo>>, 0, pc, None)
    ELSE IF check_documentation(c) < 500
    THEN Outcome(PENDING_INFO, <<InsufficientDocumentation>>,
                 check_documentation(c), pc, None)
    ELSE IF ~ check_amount_limit(c)
    THEN Outcome(REJECTED, <<AmountExceeds(c.total_amount)>>, 1000, pc, None)
    ELSE IF ~ check_service_date(c, t)
    THEN Outcome(REJECTED, <<ServiceDateRange>>, 1000, pc, None)
    ELSE after_checks(c, pc)

\* variant: the duplicate check runs right after the basic info check
evaluate_claim_duplicate_first(c, pc, t) ==
    IF ~ validate_basic_info(c)
    THEN Outcome(PENDING_INFO, <<MissingBasicInfo>>, 0, pc, None)
    ELSE LET d == check_duplicate(c, pc)
         IN  IF ~ check_amount_limit(c)
             THEN Outcome(REJECTED, <<AmountExceeds(c.total_amount)>>, 1000,
                          d.processed_claims, Some(d.result))
             ELSE IF ~ check_service_date(c, t)
             THEN Outcome(REJECTED, <<ServiceDateRange>>, 1000,
                          d.processed_claims, Some(d.result))
             ELSE after_checks(c, pc)

\* evaluate_claim on ledger pc, utcnow() returning t
evaluate_claim(c, pc, t) ==
    IF ~ validate_basic_info(c)
    THEN Outcome(PENDING_INFO, <<MissingBasicInfo>>, 0, pc, None)
    ELSE IF ~ check_amount_limit(c)
    THEN Outcome(REJECTED, <<AmountExceeds(c.total_amount)>>, 1000, pc, None)
    ELSE IF ~ check_service_date(c, t)
    THEN Outcome(REJECTED, <<ServiceDateRange>>, 1000, pc, None)
    ELSE after_checks(c, pc)

\* variant: a pending_info result is counted as under_review
update_counters_pending_as_review(results, status) ==
    IF status = APPROVED
    THEN [results EXCEPT !.approved = @ + 1]
    ELSE IF status = REJECTED
    THEN [results EXCEPT !.rejected = @ + 1]
    ELSE IF status = UNDER_REVIEW \/ status = PENDING_INFO
    THEN [results EXCEPT !.under_review = @ + 1]
    ELSE results

\* process_batch, "Update counters"
update_counters(results, status) ==
    IF status = APPROVED
    THEN [results EXCEPT !.approved = @ + 1]
    ELSE IF status = REJECTED
    THEN [results EXCEPT !.rejected = @ + 1]
    ELSE IF status = UNDER_REVIEW
    THEN [results EXCEPT !.under_review = @ + 1]
    ELSE IF status = PENDING_INFO
    THEN [results EXCEPT !.pending_info = @ + 1]
    ELSE results

\* the loop of process_batch from the i-th claim on: ts[i] is the value of
\* utcnow() read by the i-th evaluation, results the dictionary so far, pc the
\* ledger so far, dups the claims on which check_duplicate has run
RECURSIVE process_batch_loop(_, _, _, _, _, _)
process_batch_loop(cs, ts, i, results, pc, dups) ==
    IF i > Len(cs)
    THEN [results |-> results, processed_claims |-> pc, dups |-> dups]
    ELSE LET r == evaluate_claim(cs[i], pc, ts[i])
             detail == [claim_id |-> cs[i].claim_id, status |-> r.status,
                        reasons |-> r.reasons, confidence |-> r.confidence]
             appended == [results EXCEPT !.details = Append(@, detail)]
         IN  process_batch_loop(cs, ts, i + 1,
                                update_counters(appended, r.status),
                                r.processed_claims,
                                IF r.dup_check = None THEN dups
                                ELSE Append(dups, cs[i]))

\* process_batch were it to start from a ledger of its own
process_batch_fresh_ledger(cs, pc, ts) ==
    process_batch_loop(cs, ts, 1,
                       [total |-> Len(cs), approved |-> 0, rejected |-> 0,
                        under_review |-> 0, pending_info |-> 0,
                        details |-> <<>>],
                       {}, <<>>)

\* process_batch on ledger pc
process_batch(cs, pc, ts) ==
    process_batch_loop(cs, ts, 1,
                       [total |-> Len(cs), approved |-> 0, rejected |-> 0,
                        under_review |-> 0, pending_info |-> 0,
                        details |-> <<>>],
                       pc, <<>>)

\* get_decision_explanation: the evaluation it runs and the text it renders
\* (status in upper case, confidence, one numbered line per reason)
upper(s) ==
    CASE s = PENDING_INFO -> "PENDING_INFO"
      [] s = REJECTED -> "REJECTED"
      [] s = UNDER_REVIEW -> "UNDER_REVIEW"
      [] s = APPROVED -> "APPROVED"
      [] s = DRAFT -> "DRAFT"
      [] s = SUBMITTED -> "SUBMITTED"

get_decision_explanation(c, pc, t) ==
    LET r == evaluate_claim(c, pc, t)
    IN  r @@
        [explanation |->
            [decision |-> upper(r.status),
             score |-> r.confidence,
             lines |-> [i \in 1..Len(r.reasons) |-> <<i, r.reasons[i]>>]]]

----------------------------------------------------------------------------
(* BaseClaim (src/schemas/base_claim.py) and the submission page            *)
(* (src/streamlit_app.py).  An amount handed to the constructor is an       *)
(* integer number of thousandths of a dollar, the amount the validator      *)
(* returns an integer number of cents.                                      *)

\* round(v, 2) of v thousandths, in cents; exact but for the ties (v ending
\* in 5), where the binary value of v decides
round2(v) == (v + 5) \div 10

\* the amount of a record in dollars, given in cents (whole dollars only)
dollars(cents) == cents \div 100

\* @validator('total_amount'); Field(gt=0) makes the same first test
BaseClaim_validate_amount(v) ==
    IF v <= 0
    THEN [raised |-> "Claim amount must be positive"]
    ELSE IF v > 1000000 * 1000
    THEN [raised |-> "Claim amount exceeds maximum limit"]
    ELSE [raised |-> "", value |-> round2(v)]

\* @validator('service_date'), utcnow() returning t
BaseClaim_validate_service_date(v, t) ==
    IF v > t
    THEN [raised |-> "Service date cannot be in the future"]
    ELSE [raised |-> "", value |-> v]

\* BaseClaim(**data): pydantic's ValidationError, or the record with the
\* default status
BaseClaim_init(data, t) ==
    LET amount == BaseClaim_validate_amount(data.total_amount)
        service_date == BaseClaim_validate_service_date(data.service_date, t)
    IN  IF Len(data.patient_name) < 1 \/ Len(data.patient_name) > 200
        THEN [raised |-> "ValidationError"]
        ELSE IF amount.raised # "" \/ service_date.raised # ""
        THEN [raised |-> "ValidationError"]
        ELSE [raised |-> "",
              claim |->
                  [claim_id |-> data.claim_id,
                   status |-> DRAFT,
                   patient_name |-> data.patient_name,
                   patient_id |-> data.patient_id,
                   service_date |-> Some(service_date.value),
                   provider_name |-> data.provider_name,
                   provider_id |-> data.provider_id,
                   total_amount |-> dollars(amount.value),
                   description |-> data.description,
                   diagnosis_codes |-> data.diagnosis_codes,
                   procedure_codes |-> data.procedure_codes]]

\* text.split(sep)
RECURSIVE split(_, _)
split(text, sep) ==
    IF \E i \in 1..Len(text) : text[i] = sep
    THEN LET i == CHOOSE k \in 1..Len(text) :
                      /\ text[k] = sep
                      /\ \A j \in 1..(k - 1) : text[j] # sep
         IN  <<SubSeq(text, 1, i - 1)>> \o split(SubSeq(text, i + 1, Len(text)), sep)
    ELSE <<text>>

\* [c.strip() for c in text.split(',')] if text else []
form_codes(text) ==
    IF NonEmpty(text)
    THEN [i \in 1..Len(split(text, ",")) |-> strip(split(text, ",")[i])]
    ELSE <<>>

\* generate_claim_id: the digest is kept as the text it is taken of
generate_claim_id(patient_id, service_date, t) ==
    <<"CLM-", patient_id, date(service_date), t>>

\* claim_data of submit_claim_page, utcnow() returning t
claim_data(form, t) ==
    LET service_date == form.service_date * TicksPerDay
    IN  [claim_id |-> generate_claim_id(form.patient_id, service_date, t),
         patient_name |-> form.patient_name,
         patient_id |-> form.patient_id,
         provider_name |-> form.provider_name,
         provider_id |-> IF form.provider_id # "" THEN Some(form.provider_id)
                         ELSE None,
         service_date |-> service_date,
         total_amount |-> form.total_amount,
         description |-> IF NonEmpty(form.description)
                         THEN Some(form.description) ELSE None,
         diagnosis_codes |-> Some(form_codes(form.diagnosis_codes)),
         procedure_codes |-> Some(form_codes(form.procedure_codes))]

\* "Create claim based on type": a prescription claim lacks its required
\* medication fields, the other types add optional fields only
create_claim(form, t) ==
    IF form.claim_type = "Prescription"
    THEN [raised |-> "ValidationError"]
    ELSE BaseClaim_init(claim_data(form, t), t)

\* the values the status field of a submitted record takes: the one it was
\* constructed with, then the one assigned from the evaluation
status_history(created, status) ==
    <<created.status, status>>

----------------------------------------------------------------------------
(* ClaimValidator (src/utils/validators.py).  Texts are sequences of        *)
(* one-character strings over ASCII; a validator returns the pair           *)
(* (is_valid, error) as a record, error being None or Some(message).  An    *)
(* amount is an integer number of thousandths of a dollar.                  *)

Valid == [is_valid |-> TRUE, error |-> None]
Invalid(message) == [is_valid |-> FALSE, error |-> Some(message)]

DigitChars == <<"0", "1", "2", "3", "4", "5", "6", "7", "8", "9">>
LowerChars == <<"a", "b", "c", "d", "e", "f", "g", "h", "i", "j", "k", "l", "m",
                "n", "o", "p", "q", "r", "s", "t", "u", "v", "w", "x", "y", "z">>
UpperChars == <<"A", "B", "C", "D", "E", "F", "G", "H", "I", "J", "K", "L", "M",
                "N", "O", "P", "Q", "R", "S", "T", "U", "V", "W", "X", "Y", "Z">>

\* \d and [A-Z] of the patterns
IsDigit(ch) == \E i \in 1..Len(DigitChars) : DigitChars[i] = ch
IsUpper(ch) == \E i \in 1..Len(UpperChars) : UpperChars[i] = ch

\* int(d) of a digit character
int(ch) == (CHOOSE i \in 1..Len(DigitChars) : DigitChars[i] = ch) - 1

\* str.upper
text_upper(text) ==
    [i \in 1..Len(text) |->
        IF \E k \in 1..Len(LowerChars) : LowerChars[k] = text[i]
        THEN UpperChars[CHOOSE k \in 1..Len(LowerChars) : LowerChars[k] = text[i]]
        ELSE text[i]]

\* the texts a pattern ending in $ is matched against: the text itself, and
\* the text without its last character when that is a newline
UpToDollar(text) ==
    {text} \cup {SubSeq(text, 1, Len(text) - 1) : k \in
                    {n \in {Len(text)} : n > 0 /\ text[n] = "\n"}}

\* text[from..] is made of between lo and hi digits
DigitsFrom(text, from, lo, hi) ==
    /\ Len(text) - from + 1 >= lo /\ Len(text) - from + 1 <= hi
    /\ \A i \in from..Len(text) : IsDigit(text[i])

\* validate_patient_id
validate_patient_id(patient_id) ==
    IF patient_id = None \/ patient_id[1] = <<>>
       \/ Len(strip(patient_id[1])) = 0
    THEN Invalid("Patient ID cannot be empty")
    ELSE IF Len(patient_id[1]) < 6 \/ Len(patient_id[1]) > 20
    THEN Invalid("Patient ID must be between 6 and 20 characters")
    ELSE IF ~ \E m \in UpToDollar(text_upper(patient_id[1])) :
                /\ Len(m) >= 1
                /\ \A i \in 1..Len(m) :
                       IsUpper(m[i]) \/ IsDigit(m[i]) \/ m[i] = "-"
    THEN Invalid("Patient ID must contain only letters, numbers, and hyphens")
    ELSE Valid

\* sum(digits_of(n)) of a number below 100
digits_sum(n) == (n \div 10) + (n % 10)

\* digits[start::-2], start counted from the left (1 is the first digit)
RECURSIVE every_second(_, _)
every_second(digits, start) ==
    IF start < 1 THEN <<>>
    ELSE <<digits[start]>> \o every_second(digits, start - 2)

RECURSIVE sum(_)
sum(numbers) ==
    IF numbers = <<>> THEN 0 ELSE numbers[1] + sum(Tail(numbers))

\* variant: the digits are prefixed with 80840, as the NPI check digit is
\* defined
luhn_check_prefixed(number) ==
    LET digits == <<8, 0, 8, 4, 0>> \o [i \in 1..Len(number) |-> int(number[i])]
        odd_digits == every_second(digits, Len(digits))
        even_digits == every_second(digits, Len(digits) - 1)
        checksum == sum(odd_digits)
                    + sum([i \in 1..Len(even_digits) |->
                              digits_sum(even_digits[i] * 2)])
    IN  checksum % 10 = 0

\* _luhn_check
luhn_check(number) ==
    LET digits == [i \in 1..Len(number) |-> int(number[i])]
        odd_digits == every_second(digits, Len(digits))
        even_digits == every_second(digits, Len(digits) - 1)
        checksum == sum(odd_digits)
                    + sum([i \in 1..Len(even_digits) |->
                              digits_sum(even_digits[i] * 2)])
    IN  checksum % 10 = 0

\* re.sub(r'[\s\-]', '', npi)
RECURSIVE cleaned(_)
cleaned(npi) ==
    IF npi = <<>> THEN <<>>
    ELSE IF npi[1] \in Whitespace \/ npi[1] = "-" THEN cleaned(Tail(npi))
    ELSE <<npi[1]>> \o cleaned(Tail(npi))

\* validate_provider_npi
validate_provider_npi(npi) ==
    IF npi = None \/ npi[1] = <<>> THEN Valid
    ELSE LET cleaned_npi == cleaned(npi[1])
         IN  IF ~ DigitsFrom(cleaned_npi, 1, 10, 10)
             THEN Invalid("NPI must be exactly 10 digits")
             ELSE IF ~ luhn_check(cleaned_npi)
             THEN Invalid("Invalid NPI checksum")
             ELSE Valid

\* validate_diagnosis_code
validate_diagnosis_code(code) ==
    IF code = <<>> THEN Invalid("Diagnosis code cannot be empty")
    ELSE IF ~ \E m \in UpToDollar(text_upper(code)) :
                /\ Len(m) >= 3
                /\ IsUpper(m[1]) /\ IsDigit(m[2]) /\ IsDigit(m[3])
                /\ Len(m) > 3 => m[4] = "." /\ DigitsFrom(m, 5, 1, 4)
    THEN Invalid("Invalid ICD-10 code format (e.g., A00, A00.1, A00.12)")
    ELSE Valid

\* validate_procedure_code
validate_procedure_code(code) ==
    IF code = <<>> THEN Invalid("Procedure code cannot be empty")
    ELSE IF ~ \E m \in UpToDollar(code) : DigitsFrom(m, 1, 5, 5)
    THEN Invalid("CPT code must be exactly 5 digits")
    ELSE Valid

\* validate_amount with the default min_amount 0.01 and max_amount 1000000;
\* round(amount, 2) != amount exactly when the amount has a third decimal
validate_amount(amount) ==
    IF amount < 10 THEN Invalid("Amount must be at least $0.01")
    ELSE IF amount > 1000000 * 1000 THEN Invalid("Amount cannot exceed $1000000")
    ELSE IF amount % 10 # 0
    THEN Invalid("Amount can have at most 2 decimal places")
    ELSE Valid

\* an entry of the errors list: f"{prefix} '{code}': {error}", the code being
\* empty for the checks that name none
Error(prefix, code, r) == [prefix |-> prefix, code |-> code, error |-> r.error[1]]

\* the errors of the diagnosis codes from the i-th on
RECURSIVE diagnosis_errors(_, _)
diagnosis_errors(codes, i) ==
    IF i > Len(codes) THEN <<>>
    ELSE (IF validate_diagnosis_code(codes[i]).is_valid THEN <<>>
          ELSE <<Error("Diagnosis code", codes[i],
                       validate_diagnosis_code(codes[i]))>>)
         \o diagnosis_errors(codes, i + 1)

\* the errors of the procedure codes from the i-th on
RECURSIVE procedure_errors(_, _)
procedure_errors(codes, i) ==
    IF i > Len(codes) THEN <<>>
    ELSE (IF validate_procedure_code(codes[i]).is_valid THEN <<>>
          ELSE <<Error("Procedure code", codes[i],
                       validate_procedure_code(codes[i]))>>)
         \o procedure_errors(codes, i + 1)

\* variant: the amount is validated before the provider NPI
validate_all_amount_first(data) ==
    LET has(key) == key \in DOMAIN data
        patient == IF has("patient_id")
                      /\ ~ validate_patient_id(data["patient_id"]).is_valid
                   THEN <<Error("Patient ID", <<>>,
                                validate_patient_id(data["patient_id"]))>>
                   ELSE <<>>
        provider == IF has("provider_id")
                       /\ TruthyOpt(data["provider_id"])
                       /\ ~ validate_provider_npi(data["provider_id"]).is_valid
                    THEN <<Error("Provider NPI", <<>>,
                                 validate_provider_npi(data["provider_id"]))>>
                    ELSE <<>>
        amount == IF has("total_amount")
                     /\ ~ validate_amount(data["total_amount"]).is_valid
                  THEN <<Error("Amount", <<>>,
                               validate_amount(data["total_amount"]))>>
                  ELSE <<>>
        diagnosis == IF has("diagnosis_codes")
                     THEN diagnosis_errors(data["diagnosis_codes"], 1)
                     ELSE <<>>
        procedure == IF has("procedure_codes")
                     THEN procedure_errors(data["procedure_codes"], 1)
                     ELSE <<>>
    IN  patient \o amount \o provider \o diagnosis \o procedure

\* validate_all
validate_all(data) ==
    LET has(key) == key \in DOMAIN data
        patient == IF has("patient_id")
                      /\ ~ validate_patient_id(data["patient_id"]).is_valid
                   THEN <<Error("Patient ID", <<>>,
                                validate_patient_id(data["patient_id"]))>>
                   ELSE <<>>
        provider == IF has("provider_id")
                       /\ TruthyOpt(data["provider_id"])
                       /\ ~ validate_provider_npi(data["provider_id"]).is_valid
                    THEN <<Error("Provider NPI", <<>>,
                                 validate_provider_npi(data["provider_id"]))>>
                    ELSE <<>>
        amount == IF has("total_amount")
                     /\ ~ validate_amount(data["total_amount"]).is_valid
                  THEN <<Error("Amount", <<>>,
                               validate_amount(data["total_amount"]))>>
                  ELSE <<>>
        diagnosis == IF has("diagnosis_codes")
                     THEN diagnosis_errors(data["diagnosis_codes"], 1)
                     ELSE <<>>
        procedure == IF has("procedure_codes")
                     THEN procedure_errors(data["procedure_codes"], 1)
                     ELSE <<>>
    IN  patient \o provider \o amount \o diagnosis \o procedure

----------------------------------------------------------------------------
(* ClaimValidator.validate_date_range (utils/validators.py).  It computes   *)
(* on the calendar fields of the clock (replace(year=...)), so here a       *)
(* datetime is a calendar date [year, month, day] of the proleptic          *)
(* Gregorian calendar, and today is the date datetime.utcnow() returns.     *)

is_leap(year) == year % 4 = 0 /\ (year % 100 # 0 \/ year % 400 = 0)

days_in_month(year, month) ==
    IF month = 2 THEN (IF is_leap(year) THEN 29 ELSE 28)
    ELSE IF month \in {4, 6, 9, 11} THEN 30
    ELSE 31

\* a < b on datetimes
Earlier(a, b) ==
    \/ a.year < b.year
    \/ a.year = b.year /\ a.month < b.month
    \/ a.year = b.year /\ a.month = b.month /\ a.day < b.day

\* d.replace(year=year): ValueError when the day does not exist in that year
replace_year(d, year) ==
    IF d.day > days_in_month(year, d.month)
    THEN [raised |-> "ValueError"]
    ELSE [raised |-> "", result |-> [d EXCEPT !.year = year]]

validate_date_range(start_date, end_date, today) ==
    IF Earlier(end_date, start_date)
    THEN [raised |-> "",
          result |-> Invalid("Start date must be before end date")]
    ELSE LET max_age == replace_year(today, today.year - 10)
         IN  IF max_age.raised # ""
             THEN [raised |-> max_age.raised]
             ELSE IF Earlier(start_date, max_age.result)
             THEN [raised |-> "",
                   result |-> Invalid("Date is too far in the past")]
             ELSE IF Earlier(today, end_date)
             THEN [raised |-> "",
                   result |-> Invalid("Date cannot be in the future")]
             ELSE [raised |-> "", result |-> Valid]

----------------------------------------------------------------------------
(* The inputs.                                                              *)

\* the first instant of the day on which the clock starts
T0 == (MAX_SERVICE_AGE_DAYS + 1) * TicksPerDay

\* service dates: more than 365 days before T0, exactly 365 days before T0
\* (too old once the clock has moved), today, and later today (in the future
\* until the clock has moved)
TooOld == T0 - MAX_SERVICE_AGE_DAYS * TicksPerDay - 1
YearAgo == T0 - MAX_SERVICE_AGE_DAYS * TicksPerDay
Later == T0 + 1

Text10 == <<"T", "e", "s", "t", " ", "c", "l", "a", "i", "m">>
Text11 == Text10 \o <<"s">>

\* the fixture of src/tests/test_decision.py, serviced today
valid_claim ==
    [claim_id |-> "CLM-TEST-001",
     status |-> DRAFT,
     patient_name |-> <<"J", "o">>,
     patient_id |-> <<"P", "1">>,
     service_date |-> Some(T0),
     provider_name |-> "Test Hospital",
     provider_id |-> Some("1234567893"),
     total_amount |-> 500,
     description |-> Some(Text11),
     diagnosis_codes |-> Some(<<"A00.1">>),
     procedure_codes |-> Some(<<"99213">>)]

\* Spec: the decision pipeline; every documentation level, amount and date
Fields ==
    [patient_name |-> {<<" ", "J">>, <<"J", "o">>},
     service_date |-> {Some(TooOld), Some(YearAgo), Some(T0), Some(Later)},
     provider_id |-> {None, Some("1234567893")},
     total_amount |-> {-100, 600, 999, 1000, MAX_CLAIM_AMOUNT, MAX_CLAIM_AMOUNT + 1},
     description |-> {None, Some(Text10), Some(Text11)},
     diagnosis_codes |-> {Some(<<>>), Some(<<"A00.1">>)},
     procedure_codes |-> {Some(<<>>), Some(<<"99213">>)}]

\* SpecBasic: every way of missing a required field
BasicFields ==
    [patient_name |-> {<<>>, <<"J">>, <<" ", "J">>, <<"J", " ">>, <<"J", "o">>},
     patient_id |-> {<<>>, <<"P", "1">>},
     service_date |-> {None, Some(TooOld), Some(T0)},
     provider_name |-> {"", "Test Hospital"},
     total_amount |-> {0, 500, MAX_CLAIM_AMOUNT + 1},
     description |-> {None, Some(Text11)},
     diagnosis_codes |-> {None, Some(<<"A00.1">>)}]

\* SpecLedger: claims that differ in their key and claims that differ otherwise
LedgerFields ==
    [claim_id |-> {"CLM-TEST-001", "CLM-TEST-002"},
     patient_id |-> {<<"P", "1">>, <<"P", "2">>},
     service_date |-> {None, Some(YearAgo), Some(T0), Some(Later)},
     total_amount |-> {500, 5000},
     description |-> {None, Some(Text11)}]

\* SpecDoc: every level of every documentation item, amounts around 5000
DocFields ==
    [description |-> {None, Some(<<>>), Some(Text10), Some(Text11)},
     diagnosis_codes |-> {None, Some(<<>>), Some(<<"A00.1">>),
                          Some(<<"A00.1", "Z99.89">>)},
     procedure_codes |-> {None, Some(<<>>), Some(<<"99213">>)},
     provider_id |-> {None, Some(""), Some("1234567893")},
     total_amount |-> {600, 5000, 5001}]

\* SpecReview: amounts around the threshold, documentation on both sides of
\* the minimum score, two keys
ReviewFields ==
    [patient_id |-> {<<"P", "1">>, <<"P", "2">>},
     service_date |-> {None, Some(T0)},
     total_amount |-> {500, AUTO_APPROVE_THRESHOLD, AUTO_APPROVE_THRESHOLD + 1},
     description |-> {None, Some(Text11)},
     diagnosis_codes |-> {Some(<<>>), Some(<<"A00.1">>)},
     procedure_codes |-> {Some(<<>>), Some(<<"99213">>)}]

\* SpecApp: what the submission form is filled with (the amount in
\* thousandths of a dollar, the service date as a calendar day)
Forms ==
    [claim_type : {"Medical", "Prescription"},
     patient_name : {<<>>, <<"J", "o">>},
     patient_id : {<<"P", "1">>},
     provider_name : {"Test Hospital"},
     provider_id : {"", "1234567893"},
     service_date : {date(T0), date(T0) + 1},
     total_amount : {500 * 1000, (MAX_CLAIM_AMOUNT + 1) * 1000,
                     2000000 * 1000},
     description : {<<>>, Text11},
     diagnosis_codes : {<<>>, <<"A", ",", " ", "B">>},
     procedure_codes : {<<"9">>}]

\* SpecRace: the claims the concurrent callers pass: two with the same key,
\* one with another key
RaceClaims ==
    {valid_claim,
     [valid_claim EXCEPT !.claim_id = "CLM-TEST-002", !.description = None],
     [valid_claim EXCEPT !.claim_id = "CLM-TEST-003",
                         !.patient_id = <<"P", "2">>]}

\* SpecSchema: what BaseClaim is constructed from (the amount in thousandths
\* of a dollar: negative, zero, below half a cent, whole dollars after
\* rounding, above the schema's limit), and what is assigned afterwards
ConstructorData ==
    [claim_id : {"CLM-TEST-001"},
     patient_name : {<<>>, <<"J", "o">>},
     patient_id : {<<"P", "1">>},
     service_date : {T0, Later},
     provider_name : {"Test Hospital"},
     provider_id : {Some("1234567893")},
     total_amount : {-100 * 1000, 0, 4, 500 * 1000, 999996,
                     (MAX_CLAIM_AMOUNT + 1) * 1000, 1000000 * 1000 + 6},
     description : {None, Some(Text11)},
     diagnosis_codes : {Some(<<"A00.1">>)},
     procedure_codes : {Some(<<"99213">>)}]

SchemaFields ==
    [total_amount |-> {-100, 0, 500},
     patient_name |-> {<<"J">>, <<"J", "o">>}]

\* SpecValidators: the NPIs of src/tests/test_validation.py, and NPIs with a
\* raw Luhn sum of 50, with separators, of 11 digits, with a letter
Npi1234567893 == <<"1", "2", "3", "4", "5", "6", "7", "8", "9", "3">>
Npi1234567890 == <<"1", "2", "3", "4", "5", "6", "7", "8", "9", "0">>
Npi1234567897 == <<"1", "2", "3", "4", "5", "6", "7", "8", "9", "7">>
NpiInputs ==
    {None, Some(<<>>), Some(Npi1234567893), Some(Npi1234567890),
     Some(Npi1234567897),
     Some(<<"1", "2", "3", "4", "5", "6">>),
     Some(<<"1", "2", "3", "-", "4", "5", "6", " ", "7", "8", "9", "7">>),
     Some(<<"1", "2", "3", "4", "5", " ", "6", "7", "8", "9", "3">>),
     Some(<<"1", "2", "3", "4", "5", "6", "7", "-", "8", "9", "0">>),
     Some(<<"0", "0", "0", "0", "0", "0", "0", "0", "0", "0">>),
     Some(<<"1", "2", "3", "4", "5", "6", "7", "8", "9", "0", "1">>),
     Some(<<"1", "2", "3", "4", "5", "A", "7", "8", "9", "7">>),
     Some(<<" ">>),
     Some(<<"1", "2", "3", "4", "5", "6", "\t", "7", "8", "9", "7">>)}

\* claim_data of TestValidateAll.test_valid_claim_data
valid_claim_data ==
    [patient_id |-> Some(<<"P", "A", "T", "-", "1", "2", "3", "4", "5", "6">>),
     provider_id |-> Some(Npi1234567893),
     total_amount |-> 500 * 1000,
     diagnosis_codes |-> <<<<"A", "0", "0", ".", "1">>,
                           <<"Z", "9", "9", ".", "8", "9">>>>,
     procedure_codes |-> <<<<"9", "9", "2", "1", "3">>,
                           <<"1", "2", "3", "4", "5">>>>]

\* the values of the fields of a claim data map: those of the two tests of
\* TestValidateAll, an NPI with a raw Luhn sum of 50, an amount with three
\* decimals, and lists in which valid and invalid codes alternate
ClaimDataFields ==
    [patient_id : {valid_claim_data.patient_id, Some(<<"A", "B", "C">>)},
     provider_id : {Some(<<>>), valid_claim_data.provider_id,
                    Some(Npi1234567897), Some(<<"1", "2", "3">>)},
     total_amount : {valid_claim_data.total_amount, -100 * 1000, 100123},
     diagnosis_codes : {<<>>, valid_claim_data.diagnosis_codes,
                        <<<<"1", "2", "3">>>>,
                        <<<<"1", "2", "3">>, <<"a", "0", "0", ".", "1">>,
                          <<"A", "A", "0", "0">>>>},
     procedure_codes : {valid_claim_data.procedure_codes,
                        <<<<"A", "B", "C">>>>,
                        <<<<"A", "B", "C">>,
                          <<"9", "9", "2", "1", "3">>,
                          <<"1", "2", "3", "4">>>>}]

\* the maps that hold some of the fields
ClaimData ==
    {[key \in keys |-> full[key]] :
         full \in ClaimDataFields,
         keys \in SUBSET {"patient_id", "provider_id", "total_amount",
                          "diagnosis_codes", "procedure_codes"}}

\* SpecBatch: the claims a batch is made of, one for each status (the fixture
\* is approved the first time and a potential duplicate afterwards)
BatchClaims ==
    {valid_claim,
     [valid_claim EXCEPT !.claim_id = "CLM-TEST-002",
                         !.total_amount = MAX_CLAIM_AMOUNT + 1],
     [valid_claim EXCEPT !.claim_id = "CLM-TEST-003",
                         !.patient_name = <<"J">>],
     [valid_claim EXCEPT !.claim_id = "CLM-TEST-004",
                         !.total_amount = AUTO_APPROVE_THRESHOLD]}

\* the lists of at most MaxBatch claims
Batches == UNION {[1..n -> BatchClaims] : n \in 0..MaxBatch}

\* SpecSequence: two complete claims below 1000 with distinct keys, a claim
\* with the key of the first and a patient name that is too short, a claim
\* with the key of the second and no documentation but the provider id
SequenceClaims ==
    {valid_claim,
     [valid_claim EXCEPT !.claim_id = "CLM-TEST-005",
                         !.patient_id = <<"P", "2">>,
                         !.total_amount = 600],
     [valid_claim EXCEPT !.claim_id = "CLM-TEST-003",
                         !.patient_name = <<"J">>],
     [valid_claim EXCEPT !.claim_id = "CLM-TEST-006",
                         !.patient_id = <<"P", "2">>,
                         !.total_amount = 600,
                         !.description = None,
                         !.diagnosis_codes = Some(<<>>),
                         !.procedure_codes = Some(<<>>)]}

SequenceBatches == UNION {[1..n -> SequenceClaims] : n \in 0..MaxBatch}

\* SpecEngines: two keys
EngineFields ==
    [total_amount |-> {500, 600}]

\* SpecFrame: claims that leave the pipeline at each of its steps, four keys
FrameFields ==
    [patient_name |-> {<<"J">>, <<"J", "o">>},
     patient_id |-> {<<"P", "1">>, <<"P", "2">>},
     service_date |-> {Some(TooOld), Some(T0)},
     total_amount |-> {500, 600, MAX_CLAIM_AMOUNT + 1},
     description |-> {None, Some(Text11)}]

\* SpecResubmit: a claim without its documentation and with it, under two
\* keys, the patient name valid or not
ResubmitFields ==
    [patient_name |-> {<<"J">>, <<"J", "o">>},
     patient_id |-> {<<"P", "1">>, <<"P", "2">>},
     description |-> {None, Some(Text11)},
     diagnosis_codes |-> {Some(<<>>), Some(<<"A00.1">>)},
     procedure_codes |-> {Some(<<>>), Some(<<"99213">>)}]

\* SpecPeek: amounts on both sides of the threshold, documentation on both
\* sides of the minimum score, two keys, the patient name valid or not
PeekFields ==
    [patient_name |-> {<<"J">>, <<"J", "o">>},
     patient_id |-> {<<"P", "1">>, <<"P", "2">>},
     total_amount |-> {500, AUTO_APPROVE_THRESHOLD + 1},
     description |-> {None, Some(Text11)},
     diagnosis_codes |-> {Some(<<>>), Some(<<"A00.1">>)},
     procedure_codes |-> {Some(<<>>), Some(<<"99213">>)}]

\* calendar dates around the end of February, ten years apart, the later
\* year a leap year; the clock reads a date of the later year
CalendarDates ==
    {d \in [year : {2018, 2028}, month : {2, 3}, day : {1, 28, 29}] :
        d.day <= days_in_month(d.year, d.month)}
Todays == {d \in CalendarDates : d.year = 2028}

----------------------------------------------------------------------------
(* The state machine.                                                       *)

NoReturn == [op |-> "none"]

\* the callers that share the engine's ClaimRules, and a caller outside a call
Threads == 1..MaxThreads
Idle == [pc |-> "idle"]

\* datetime.utcnow(): the clock never runs backwards
utcnow == {now} \cup {t \in {now + 1} : t <= T0 + MaxTicks}

\* the fields of a claim that make its ledger key
Triple(c) == <<c.patient_id, date(c.service_date[1]), c.total_amount>>

Init ==
    /\ claim = valid_claim
    /\ processed_claims = {}
    /\ now = T0
    /\ ret = NoReturn
    /\ seen = {}
    /\ checked = {}
    /\ was_checked = FALSE
    /\ arg = None
    /\ claims = <<>>
    /\ threads = [t \in Threads |-> Idle]
    /\ events = <<>>
    /\ engines = <<>>

\* claim.<field> = value, for the values D: pydantic checks nothing on assignment
SetField(D) ==
    \E f \in DOMAIN D : \E v \in D[f] :
        /\ claim' = [claim EXCEPT ![f] = v]
        /\ ret' = NoReturn
        /\ seen' = processed_claims
        /\ was_checked' = FALSE
        /\ UNCHANGED <<processed_claims, now, checked>>
        /\ UNCHANGED app

\* the history of a call in which check_duplicate ran (dup_check # None) or not
Record(dup_check) ==
    IF dup_check = None
    THEN was_checked' = FALSE /\ UNCHANGED checked
    ELSE /\ was_checked' = (Triple(claim) \in checked)
         /\ checked' = checked \cup {Triple(claim)}

\* engine.evaluate_claim(claim), the ledger holding at most bound keys
EvaluateClaim(bound) ==
    \E t \in utcnow :
        LET r == evaluate_claim(claim, processed_claims, t)
        IN  /\ Cardinality(r.processed_claims) <= bound
            /\ now' = t
            /\ ret' = [op |-> "evaluate_claim", status |-> r.status,
                       reasons |-> r.reasons, confidence |-> r.confidence]
            /\ processed_claims' = r.processed_claims
            /\ seen' = processed_claims
            /\ Record(r.dup_check)
            /\ UNCHANGED claim
            /\ UNCHANGED app

\* engine.get_decision_explanation(claim)
GetDecisionExplanation(bound) ==
    \E t \in utcnow :
        LET r == get_decision_explanation(claim, processed_claims, t)
        IN  /\ Cardinality(r.processed_claims) <= bound
            /\ now' = t
            /\ ret' = [op |-> "get_decision_explanation", status |-> r.status,
                       reasons |-> r.reasons, confidence |-> r.confidence,
                       explanation |-> r.explanation]
            /\ processed_claims' = r.processed_claims
            /\ seen' = processed_claims
            /\ Record(r.dup_check)
            /\ UNCHANGED claim
            /\ UNCHANGED app

\* ClaimRules(): self.processed_claims = set()
ClaimRules_init == {}

\* the ledgers once engine e's rules left theirs as ledger, were
\* processed_claims an attribute of the class
with_rules_shared(ledgers, e, ledger) == [f \in DOMAIN ledgers |-> ledger]

\* the ledgers once engine e's rules left theirs as ledger: processed_claims
\* is an attribute of the instance
with_rules(ledgers, e, ledger) == [ledgers EXCEPT ![e] = ledger]

\* DecisionEngine(): one more engine, with rules of its own
NewDecisionEngine ==
    /\ Len(engines) < MaxEngines
    /\ engines' = Append(engines, ClaimRules_init)
    /\ ret' = [op |-> "DecisionEngine", engine |-> Len(engines) + 1]
    /\ UNCHANGED <<claim, processed_claims, now, seen, checked, was_checked,
                   arg, claims, threads, events>>

\* e.evaluate_claim(claim) on a further engine e
EvaluateClaimOn(bound) ==
    \E e \in DOMAIN engines : \E t \in utcnow :
        LET r == evaluate_claim(claim, engines[e], t)
        IN  /\ Cardinality(r.processed_claims) <= bound
            /\ now' = t
            /\ ret' = [op |-> "evaluate_claim", engine |-> e,
                       status |-> r.status, reasons |-> r.reasons,
                       confidence |-> r.confidence]
            /\ engines' = with_rules(engines, e, r.processed_claims)
            /\ seen' = engines[e]
            /\ UNCHANGED <<claim, processed_claims, checked, was_checked,
                           arg, claims, threads, events>>

\* engine.rules.check_duplicate(claim); on a claim without a service date
\* claim.service_date.date() raises AttributeError before the ledger is read
CheckDuplicate(bound) ==
    /\ IF claim.service_date = None
       THEN /\ ret' = [op |-> "check_duplicate", raised |-> "AttributeError"]
            /\ was_checked' = FALSE
            /\ UNCHANGED <<processed_claims, checked>>
       ELSE LET r == check_duplicate(claim, processed_claims)
            IN  /\ Cardinality(r.processed_claims) <= bound
                /\ ret' = [op |-> "check_duplicate", raised |-> "",
                           result |-> r.result]
                /\ processed_claims' = r.processed_claims
                /\ Record(Some(r.result))
    /\ seen' = processed_claims
    /\ UNCHANGED <<claim, now>>
    /\ UNCHANGED app

\* engine.rules.check_documentation(claim)
CheckDocumentation ==
    /\ ret' = [op |-> "check_documentation",
               result |-> check_documentation(claim)]
    /\ seen' = processed_claims
    /\ was_checked' = FALSE
    /\ UNCHANGED <<claim, processed_claims, now, checked>>
    /\ UNCHANGED app

\* engine.rules.requires_manual_review(claim); on a claim without a service
\* date the call raises AttributeError when it reaches check_duplicate
RequiresManualReview(bound) ==
    /\ IF /\ claim.service_date = None
          /\ claim.total_amount <= AUTO_APPROVE_THRESHOLD
          /\ check_documentation(claim) >= MIN_DOCUMENTATION_SCORE
       THEN /\ ret' = [op |-> "requires_manual_review",
                       raised |-> "AttributeError"]
            /\ was_checked' = FALSE
            /\ UNCHANGED <<processed_claims, checked>>
       ELSE LET r == requires_manual_review(claim, processed_claims)
            IN  /\ Cardinality(r.processed_claims) <= bound
                /\ ret' = [op |-> "requires_manual_review", raised |-> "",
                           result |-> r.result, dup_check |-> r.dup_check]
                /\ processed_claims' = r.processed_claims
                /\ Record(r.dup_check)
    /\ seen' = processed_claims
    /\ UNCHANGED <<claim, now>>
    /\ UNCHANGED app

\* engine.process_batch(cs): the clock is read once for every claim
ProcessBatchOf(batches, bound) ==
    \E cs \in batches :
    \E ts \in [1..Len(cs) -> now..(T0 + MaxTicks)] :
        LET r == process_batch(cs, processed_claims, ts)
        IN  /\ \A i \in 1..(Len(cs) - 1) : ts[i] <= ts[i + 1]
            /\ Cardinality(r.processed_claims) <= bound
            /\ arg' = cs
            /\ now' = IF cs = <<>> THEN now ELSE ts[Len(cs)]
            /\ ret' = [op |-> "process_batch"] @@ r.results
            /\ processed_claims' = r.processed_claims
            /\ seen' = processed_claims
            /\ was_checked' =
                   \E i \in 1..Len(r.dups) :
                       \/ Triple(r.dups[i]) \in checked
                       \/ \E j \in 1..(i - 1) :
                              Triple(r.dups[j]) = Triple(r.dups[i])
            /\ checked' =
                   checked \cup {Triple(r.dups[i]) : i \in 1..Len(r.dups)}
            /\ UNCHANGED <<claim, claims, threads, events, engines>>

\* engine.process_batch(cs) on the batches of SpecBatch
ProcessBatch(bound) == ProcessBatchOf(Batches, bound)

\* the "Submit Claim" button of submit_claim_page: the required fields are
\* tested, the claim is constructed (utcnow() returning t1), evaluated
\* (utcnow() returning t2), given the status of the decision and kept
SubmitClaim(bound) ==
    \E form \in Forms : \E t1 \in utcnow :
    \E t2 \in {t \in {t1, t1 + 1} : t <= T0 + MaxTicks} :
        /\ Len(claims) < MaxClaims
        /\ arg' = form
        /\ UNCHANGED <<claim, threads, events, engines>>
        /\ IF ~ ( /\ NonEmpty(form.patient_name)
                  /\ NonEmpty(form.patient_id)
                  /\ form.provider_name # ""
                  /\ form.total_amount # 0 )
           THEN /\ ret' = [op |-> "submit_claim",
                           error |-> "Please fill in all required fields"]
                /\ seen' = processed_claims
                /\ was_checked' = FALSE
                /\ UNCHANGED <<claims, processed_claims, now, checked>>
           ELSE LET created == create_claim(form, t1)
                IN  IF created.raised # ""
                    THEN /\ ret' = [op |-> "submit_claim",
                                    error |-> "Error submitting claim"]
                         /\ now' = t1
                         /\ seen' = processed_claims
                         /\ was_checked' = FALSE
                         /\ UNCHANGED <<claims, processed_claims, checked>>
                    ELSE LET c == created.claim
                             r == evaluate_claim(c, processed_claims, t2)
                         IN  /\ Cardinality(r.processed_claims) <= bound
                             /\ claims' = Append(claims,
                                                 [c EXCEPT !.status = r.status])
                             /\ ret' = [op |-> "submit_claim", error |-> "",
                                        status |-> r.status,
                                        reasons |-> r.reasons,
                                        confidence |-> r.confidence,
                                        history |-> status_history(c, r.status)]
                             /\ now' = t2
                             /\ processed_claims' = r.processed_claims
                             /\ seen' = processed_claims
                             /\ IF r.dup_check = None
                                THEN was_checked' = FALSE /\ UNCHANGED checked
                                ELSE /\ was_checked' = (Triple(c) \in checked)
                                     /\ checked' = checked \cup {Triple(c)}

\* A caller's check_duplicate(c) on the shared ledger, statement by statement:
\* nothing in ClaimRules keeps another caller from running in between.

\* the call, up to claim_key = f"..."
CallCheckDuplicate(t) ==
    /\ threads[t].pc = "idle"
    /\ \E c \in RaceClaims :
           /\ threads' = [threads EXCEPT ![t] =
                             [pc |-> "test", claim_key |-> claim_key(c)]]
           /\ checked' = checked \cup {Triple(c)}
    /\ UNCHANGED <<claim, processed_claims, now, ret, seen, was_checked,
                   arg, claims, events, engines>>

\* if claim_key in self.processed_claims: ... return True
TestMembership(t) ==
    /\ threads[t].pc = "test"
    /\ threads' = [threads EXCEPT ![t] =
                      IF threads[t].claim_key \in processed_claims
                      THEN [pc |-> "done", claim_key |-> threads[t].claim_key,
                            result |-> TRUE]
                      ELSE [pc |-> "add", claim_key |-> threads[t].claim_key]]
    /\ events' = Append(events, [thread |-> t, access |-> "test",
                                 claim_key |-> threads[t].claim_key])
    /\ UNCHANGED <<claim, processed_claims, now, ret, seen, checked,
                   was_checked, arg, claims, engines>>

\* variant: the key is not recorded
AddKey_not_recorded(t) ==
    /\ threads[t].pc = "add"
    /\ threads' = [threads EXCEPT ![t] =
                      [pc |-> "done", claim_key |-> threads[t].claim_key,
                       result |-> FALSE]]
    /\ events' = Append(events, [thread |-> t, access |-> "add",
                                 claim_key |-> threads[t].claim_key])
    /\ UNCHANGED <<claim, processed_claims, now, ret, seen, checked,
                   was_checked, arg, claims, engines>>

\* self.processed_claims.add(claim_key); return False
AddKey(t) ==
    /\ threads[t].pc = "add"
    /\ processed_claims' = processed_claims \cup {threads[t].claim_key}
    /\ threads' = [threads EXCEPT ![t] =
                      [pc |-> "done", claim_key |-> threads[t].claim_key,
                       result |-> FALSE]]
    /\ events' = Append(events, [thread |-> t, access |-> "add",
                                 claim_key |-> threads[t].claim_key])
    /\ UNCHANGED <<claim, now, ret, seen, checked, was_checked, arg, claims,
                   engines>>

\* claim = BaseClaim(**data), utcnow() returning t: the held claim is the new
\* record, or the old one when pydantic raises
Construct ==
    \E data \in ConstructorData : \E t \in utcnow :
        LET created == BaseClaim_init(data, t)
        IN  /\ arg' = data
            /\ now' = t
            /\ ret' = [op |-> "BaseClaim", raised |-> created.raised]
            /\ claim' = IF created.raised = "" THEN created.claim ELSE claim
            /\ seen' = processed_claims
            /\ was_checked' = FALSE
            /\ UNCHANGED <<processed_claims, checked, claims, threads, events,
                           engines>>

\* The validators are static methods that keep no state: every result shows
\* in one call from the initial state.

\* ClaimValidator.validate_provider_npi(npi)
ValidateProviderNpi ==
    \E npi \in NpiInputs :
        /\ ret = NoReturn
        /\ arg' = npi
        /\ ret' = [op |-> "validate_provider_npi",
                   result |-> validate_provider_npi(npi)]
        /\ UNCHANGED <<claim, processed_claims, now, seen, checked,
                       was_checked, claims, threads, events, engines>>

\* ClaimValidator.validate_all(claim_data)
ValidateAll ==
    \E data \in ClaimData :
        /\ ret = NoReturn
        /\ arg' = data
        /\ ret' = [op |-> "validate_all", errors |-> validate_all(data)]
        /\ UNCHANGED <<claim, processed_claims, now, seen, checked,
                       was_checked, claims, threads, events, engines>>

\* ClaimValidator.validate_date_range(start_date, end_date), the clock
\* reading today
ValidateDateRange ==
    \E start_date \in CalendarDates, end_date \in CalendarDates,
       today \in Todays :
        /\ ret = NoReturn
        /\ arg' = [start_date |-> start_date, end_date |-> end_date,
                   utcnow |-> today]
        /\ ret' = [op |-> "validate_date_range"]
                  @@ validate_date_range(start_date, end_date, today)
        /\ UNCHANGED <<claim, processed_claims, now, seen, checked,
                       was_checked, claims, threads, events, engines>>

Next ==
    \/ SetField(Fields)
    \/ EvaluateClaim(MaxLedger)
    \/ GetDecisionExplanation(MaxLedger)

Spec == Init /\ [][Next]_vars

NextBasic ==
    \/ SetField(BasicFields)
    \/ EvaluateClaim(MaxLedger)

SpecBasic == Init /\ [][NextBasic]_vars

NextLedger ==
    \/ SetField(LedgerFields)
    \/ CheckDuplicate(MaxChecked)
    \/ EvaluateClaim(MaxChecked)
    \/ GetDecisionExplanation(MaxChecked)

SpecLedger == Init /\ [][NextLedger]_vars

NextDoc ==
    \/ SetField(DocFields)
    \/ CheckDuplicate(MaxLedger)
    \/ CheckDocumentation

SpecDoc == Init /\ [][NextDoc]_vars

NextBatch ==
    \/ ProcessBatch(MaxChecked)

SpecBatch == Init /\ [][NextBatch]_vars

NextSequence ==
    \/ EvaluateClaim(MaxChecked)
    \/ ProcessBatchOf(SequenceBatches, MaxChecked)

SpecSequence == Init /\ [][NextSequence]_vars

NextReview ==
    \/ SetField(ReviewFields)
    \/ CheckDuplicate(MaxChecked)
    \/ RequiresManualReview(MaxChecked)

SpecReview == Init /\ [][NextReview]_vars

NextApp ==
    \/ SubmitClaim(MaxChecked)

SpecApp == Init /\ [][NextApp]_vars

NextRace ==
    \/ \E t \in Threads : CallCheckDuplicate(t)
    \/ \E t \in Threads : TestMembership(t)
    \/ \E t \in Threads : AddKey(t)

SpecRace == Init /\ [][NextRace]_vars

NextSchema ==
    \/ Construct
    \/ SetField(SchemaFields)
    \/ EvaluateClaim(MaxLedger)

SpecSchema == Init /\ [][NextSchema]_vars

NextSync ==
    \/ SetField(ReviewFields)
    \/ EvaluateClaim(MaxChecked)
    \/ RequiresManualReview(MaxChecked)

SpecSync == Init /\ [][NextSync]_vars

NextValidators ==
    \/ ValidateProviderNpi
    \/ ValidateAll

SpecValidators == Init /\ [][NextValidators]_vars

NextDates ==
    \/ ValidateDateRange

SpecDates == Init /\ [][NextDates]_vars

NextEngines ==
    \/ SetField(EngineFields)
    \/ NewDecisionEngine
    \/ EvaluateClaim(MaxLedger)
    \/ EvaluateClaimOn(MaxLedger)

SpecEngines == Init /\ [][NextEngines]_vars

NextFrame ==
    \/ SetField(FrameFields)
    \/ EvaluateClaim(MaxChecked)

SpecFrame == Init /\ [][NextFrame]_vars

NextResubmit ==
    \/ SetField(ResubmitFields)
    \/ EvaluateClaim(MaxChecked)

SpecResubmit == Init /\ [][NextResubmit]_vars

NextPeek ==
    \/ SetField(PeekFields)
    \/ RequiresManualReview(MaxChecked)
    \/ EvaluateClaim(MaxChecked)

SpecPeek == Init /\ [][NextPeek]_vars

----------------------------------------------------------------------------
(* What the claims speak about.                                             *)

Evaluated == ret.op = "evaluate_claim"

LastReason == ret.reasons[Len(ret.reasons)]
Mentions(reason, fragment) == \E i \in 1..Len(reason) : reason[i] = fragment
SomeReasonMentions(fragment) ==
    \E i \in 1..Len(ret.reasons) : Mentions(ret.reasons[i], fragment)

\* the claim under evaluation, as the call saw it (now is the clock it read)
BasicInfoOk == validate_basic_info(claim)
OverLimit == claim.total_amount > MAX_CLAIM_AMOUNT
WithinLimit == 0 < claim.total_amount /\ claim.total_amount <= MAX_CLAIM_AMOUNT
InFuture == claim.service_date # None /\ claim.service_date[1] > now
TooOldNow ==
    /\ claim.service_date # None
    /\ claim.service_date[1] < now - MAX_SERVICE_AGE_DAYS * TicksPerDay
InWindow == claim.service_date # None /\ ~ InFuture /\ ~ TooOldNow
DocScore == check_documentation(claim)
KeySeen == claim.service_date # None /\ claim_key(claim) \in seen
PassesChecks == BasicInfoOk /\ WithinLimit /\ InWindow
CompleteDocumentation ==
    /\ claim.description # None /\ Len(claim.description[1]) > 10
    /\ claim.diagnosis_codes # None /\ Len(claim.diagnosis_codes[1]) >= 1
    /\ claim.procedure_codes # None /\ Len(claim.procedure_codes[1]) >= 1
    /\ claim.provider_id # None /\ claim.provider_id[1] # ""

----------------------------------------------------------------------------
\* C1: a claim with valid basic info that is under-documented or a duplicate
\* is still rejected for its amount when it is over the limit, and for its
\* service date when the amount is within the limit and the date is outside the
\* window: one reason, confidence 1.0, no documentation or duplicate reason.
C1_AmountAndDateFirst ==
    (Evaluated /\ BasicInfoOk /\ (DocScore < 500 \/ KeySeen)) =>
        /\ OverLimit =>
              /\ ret.status = REJECTED
              /\ ret.reasons = <<AmountExceeds(claim.total_amount)>>
              /\ ret.confidence = 1000
        /\ (WithinLimit /\ ~ InWindow) =>
              /\ ret.status = REJECTED
              /\ ret.reasons = <<ServiceDateRange>>
              /\ ret.confidence = 1000

C1_Witness ==
    /\ Evaluated /\ BasicInfoOk /\ OverLimit /\ DocScore < 500
    /\ ret.status = REJECTED

\* C2 as stated: every claim over the maximum amount is rejected with a reason
\* containing "exceeds".
C2_Original ==
    (Evaluated /\ OverLimit) =>
        ret.status = REJECTED /\ SomeReasonMentions("exceeds")

\* C2 as amended: every claim with valid basic info and an amount over the
\* maximum is rejected with a reason containing "exceeds", in any ledger state.
C2_OverLimitRejected ==
    (Evaluated /\ BasicInfoOk /\ OverLimit) =>
        ret.status = REJECTED /\ SomeReasonMentions("exceeds")

C2_Witness ==
    /\ Evaluated /\ BasicInfoOk /\ OverLimit /\ seen # {}
    /\ ret.status = REJECTED

\* C3 as stated: every claim with a future service date is rejected with a
\* reason mentioning the service date, and every claim older than 365 days is
\* rejected.
C3_Original ==
    Evaluated =>
        /\ InFuture => ret.status = REJECTED /\ SomeReasonMentions("Service date")
        /\ TooOldNow => ret.status = REJECTED

\* C3 as amended: a claim with valid basic info and an amount within the limit
\* whose service date is in the future is rejected with a reason mentioning the
\* service date, and a claim with valid basic info whose service date is older
\* than 365 days is rejected.
C3_DateRejected ==
    (Evaluated /\ BasicInfoOk) =>
        /\ (WithinLimit /\ InFuture) =>
              ret.status = REJECTED /\ SomeReasonMentions("Service date")
        /\ TooOldNow => ret.status = REJECTED

C3_Witness ==
    /\ Evaluated /\ BasicInfoOk /\ WithinLimit /\ InFuture
    /\ ret.status = REJECTED /\ ret.reasons = <<ServiceDateRange>>

\* C4: a claim with an empty patient name, patient id or provider name, no
\* service date, a zero amount, or a patient name of fewer than 2 characters
\* once trimmed, is pending_info with confidence 0.0 and the single reason
\* "Missing or invalid basic information".
C4_MissingBasicInfo ==
    (Evaluated /\ ( \/ claim.patient_name = <<>>
                    \/ claim.patient_id = <<>>
                    \/ claim.service_date = None
                    \/ claim.provider_name = ""
                    \/ claim.total_amount = 0
                    \/ Len(strip(claim.patient_name)) < 2 )) =>
        /\ ret.status = PENDING_INFO
        /\ ret.confidence = 0
        /\ ret.reasons = <<MissingBasicInfo>>

C4_Witness ==
    /\ Evaluated
    /\ claim.patient_name = <<" ", "J">>
    /\ claim.patient_id # <<>> /\ claim.provider_name # ""
    /\ claim.service_date = Some(TooOld)
    /\ OverLimit
    /\ processed_claims # {}
    /\ ret.status = PENDING_INFO /\ ret.confidence = 0

\* C5: a claim with valid basic info, 0 < amount < 1000, a service date in the
\* window, complete documentation and a key not yet in the ledger is approved
\* with confidence above 0.8 and a reason containing "Auto-approved".
C5_AutoApprove ==
    ( /\ Evaluated /\ BasicInfoOk /\ InWindow
      /\ 0 < claim.total_amount /\ claim.total_amount < 1000
      /\ CompleteDocumentation /\ ~ KeySeen ) =>
        /\ ret.status = APPROVED
        /\ ret.confidence > 800
        /\ SomeReasonMentions("Auto-approved")

C5_Witness ==
    /\ Evaluated /\ BasicInfoOk /\ InWindow
    /\ claim.total_amount = 999
    /\ CompleteDocumentation /\ ~ KeySeen
    /\ ret.status = APPROVED

\* C6: check_duplicate returns true exactly when check_duplicate was run before,
\* directly or by the engine, on a claim with the same patient id, calendar day
\* of service and amount.
C6_DuplicateIffCheckedBefore ==
    (ret.op = "check_duplicate" /\ ret.raised = "") =>
        (ret.result <=> was_checked)

C6_Witness ==
    /\ ret.op = "check_duplicate" /\ ret.raised = ""
    /\ ret.result
    /\ claim.claim_id = "CLM-TEST-002"
    /\ claim.service_date = Some(Later)
    /\ Cardinality(processed_claims) = MaxChecked

\* C7 as stated: for any claim, when evaluate_claim ran on a ledger without the
\* claim's key and the engine is called again for the same claim, the first
\* result carries no duplicate reason and the second one does.
C7_Original ==
    [][ ( /\ Evaluated
          /\ claim.service_date # None
          /\ claim_key(claim) \notin seen
          /\ claim' = claim
          /\ ret'.op \in {"evaluate_claim", "get_decision_explanation"} ) =>
            /\ \A i \in 1..Len(ret.reasons) : ret.reasons[i] # PotentialDuplicate
            /\ ret'.reasons[1] = PotentialDuplicate ]_vars

\* C7 as amended: the same, for any claim that passes the basic info, amount and
\* service date checks in both calls.
C7_SecondCallDuplicate ==
    [][ ( /\ Evaluated
          /\ PassesChecks
          /\ claim_key(claim) \notin seen
          /\ claim' = claim
          /\ ret'.op \in {"evaluate_claim", "get_decision_explanation"}
          /\ check_service_date(claim, now') ) =>
            /\ \A i \in 1..Len(ret.reasons) : ret.reasons[i] # PotentialDuplicate
            /\ ret'.reasons[1] = PotentialDuplicate ]_vars

C7_Witness ==
    /\ ret.op = "get_decision_explanation"
    /\ PassesChecks
    /\ ret.reasons[1] = PotentialDuplicate
    /\ was_checked
    /\ seen = processed_claims

\* C8: a claim that passes the basic info, amount and date checks and whose key
\* is in the ledger gets the duplicate reason first and a running confidence of
\* 0.7, and the documentation step still decides: pending_info with the
\* documentation score below 0.5, else approved or under_review on amount and
\* confidence, the step's reason coming last.
C8_DuplicateContinues ==
    (Evaluated /\ PassesChecks /\ KeySeen) =>
        /\ Len(ret.reasons) = 2
        /\ ret.reasons[1] = PotentialDuplicate
        /\ IF DocScore < 500
           THEN /\ ret.status = PENDING_INFO
                /\ LastReason = InsufficientDocumentation
           ELSE /\ ret.confidence = (700 * DocScore) \div 1000
                /\ IF claim.total_amount < 1000 /\ ret.confidence > 800
                   THEN ret.status = APPROVED /\ LastReason = AutoApproved
                   ELSE ret.status = UNDER_REVIEW /\ LastReason = ManualReview

C8_Witness ==
    /\ Evaluated /\ PassesChecks /\ KeySeen
    /\ DocScore = 1000
    /\ ret.status = UNDER_REVIEW /\ ret.confidence = 700

\* C9: a claim that passes the basic info, amount and date checks with a
\* documentation score below 0.5 is pending_info, its last reason is
\* "Insufficient documentation provided" and the confidence returned is the
\* documentation score; without description, codes and provider id an amount of
\* 600 scores 0.1.
C9_InsufficientDocumentation ==
    (Evaluated /\ PassesChecks /\ DocScore < 500) =>
        /\ ret.status = PENDING_INFO
        /\ LastReason = InsufficientDocumentation
        /\ ret.confidence = DocScore
        /\ ret.confidence < 500
        /\ ( /\ claim.total_amount = 600
             /\ claim.description = None
             /\ claim.diagnosis_codes = Some(<<>>)
             /\ claim.procedure_codes = Some(<<>>)
             /\ claim.provider_id = None ) => ret.confidence = 100

C9_Witness ==
    /\ Evaluated /\ PassesChecks
    /\ claim.total_amount = 600
    /\ claim.description = None
    /\ claim.diagnosis_codes = Some(<<>>)
    /\ claim.procedure_codes = Some(<<>>)
    /\ claim.provider_id = None
    /\ ret.status = PENDING_INFO /\ ret.confidence = 100

\* C10: a claim that passes the checks with a documentation score of at least
\* 0.5 has confidence 1.0, times 0.7 if it is a duplicate, times the score; it
\* is approved with last reason "Auto-approved: All criteria met" exactly when
\* the amount is below 1000 and the confidence above 0.8, and under_review with
\* last reason "Requires manual review" otherwise.
C10_ApproveOrReview ==
    (Evaluated /\ PassesChecks /\ DocScore >= 500) =>
        LET confidence == ((IF KeySeen THEN 700 ELSE 1000) * DocScore) \div 1000
        IN  /\ ret.confidence = confidence
            /\ IF claim.total_amount < 1000 /\ confidence > 800
               THEN ret.status = APPROVED /\ LastReason = AutoApproved
               ELSE ret.status = UNDER_REVIEW /\ LastReason = ManualReview

C10_Witness ==
    /\ Evaluated /\ PassesChecks
    /\ claim.total_amount < 1000
    /\ ret.confidence = 800
    /\ ret.status = UNDER_REVIEW /\ LastReason = ManualReview

----------------------------------------------------------------------------
\* the values the variable confidence of evaluate_claim held before the call
\* returned: 1.0 from the start, and 0.7 once a duplicate was detected
RunningConfidence ==
    {1000} \cup (IF PassesChecks /\ KeySeen THEN {Times(1000, 700)} ELSE {})

\* C11: the confidence evaluate_claim returns lies within [0, 1] and is never
\* greater than a running confidence the call held before it returned.
C11_ConfidenceNeverIncreased ==
    Evaluated =>
        /\ 0 <= ret.confidence /\ ret.confidence <= 1000
        /\ \A running \in RunningConfidence : ret.confidence <= running

C11_Witness ==
    /\ Evaluated /\ PassesChecks /\ KeySeen
    /\ DocScore < 500
    /\ ret.confidence = DocScore /\ ret.confidence > 0
    /\ ret.confidence < Times(1000, 700)

----------------------------------------------------------------------------
\* the documentation points of the held claim, in tenths of a point
DescriptionPoints ==
    IF claim.description # None /\ Len(claim.description[1]) > 10
    THEN 10 ELSE 0
HasDiagnosis == claim.diagnosis_codes # None /\ Len(claim.diagnosis_codes[1]) >= 1
HasProcedure == claim.procedure_codes # None /\ Len(claim.procedure_codes[1]) >= 1
HasProvider == claim.provider_id # None /\ claim.provider_id[1] # ""
Points ==
    DescriptionPoints
    + (IF HasDiagnosis THEN 15 ELSE 0)
    + (IF HasProcedure THEN 15 ELSE 0)
    + (IF HasProvider THEN 5 ELSE 0)
    + (IF \/ claim.total_amount <= 5000
          \/ (claim.total_amount > 5000 /\ HasDiagnosis /\ HasProcedure)
       THEN 5 ELSE 0)

\* C12: check_documentation returns the points divided by 5.0 (1.0 for a
\* description longer than 10 characters, 1.5 for a diagnosis code, 1.5 for a
\* procedure code, 0.5 for a provider id, 0.5 for an amount of at most 5000 or
\* a higher amount with both kinds of codes); the result lies in [0, 1], a
\* description of exactly 10 characters earns nothing, and the ledger is left
\* as it was.
C12_DocumentationScore ==
    ret.op = "check_documentation" =>
        /\ ret.result * 50 = Points * 1000
        /\ 0 <= ret.result /\ ret.result <= 1000
        /\ processed_claims = seen

C12_Witness ==
    /\ ret.op = "check_documentation"
    /\ claim.description = Some(Text10)
    /\ claim.total_amount > 5000
    /\ HasDiagnosis /\ ~ HasProcedure /\ HasProvider
    /\ processed_claims # {}
    /\ ret.result = 400

----------------------------------------------------------------------------
Batched == ret.op = "process_batch"

\* the number of detail records of the returned dictionary with a status
Count(status) ==
    Cardinality({i \in 1..Len(ret.details) : ret.details[i].status = status})

\* C13: process_batch returns total equal to the number of claims passed in,
\* one detail record per claim in the order of the input (the i-th record
\* carries the i-th claim's id), and four counters that each equal the number
\* of detail records with that status, so that they sum to total.
C13_BatchCounters ==
    Batched =>
        /\ ret.total = Len(arg)
        /\ Len(ret.details) = Len(arg)
        /\ \A i \in 1..Len(arg) : ret.details[i].claim_id = arg[i].claim_id
        /\ ret.approved = Count(APPROVED)
        /\ ret.rejected = Count(REJECTED)
        /\ ret.under_review = Count(UNDER_REVIEW)
        /\ ret.pending_info = Count(PENDING_INFO)
        /\ ret.approved + ret.rejected + ret.under_review + ret.pending_info
               = ret.total

C13_Witness ==
    /\ Batched /\ ret.total = 2
    /\ arg[1].claim_id = arg[2].claim_id
    /\ seen # {}
    /\ ret.approved = 1 /\ ret.under_review = 1
    /\ ret.details[1].status = APPROVED

----------------------------------------------------------------------------
Reviewed == ret.op = "requires_manual_review" /\ ret.raised = ""

\* check_duplicate had been called on the held claim's patient, day and
\* amount before the most recent call
CheckedBefore ==
    /\ claim.service_date # None
    /\ IF ret.dup_check = None THEN Triple(claim) \in checked ELSE was_checked

\* C14: requires_manual_review returns true exactly when the amount is above
\* 1000, or the documentation score is below 0.5, or the claim's key is already
\* in the ledger; so it returns true whenever check_duplicate was called
\* earlier on the same rules instance for the same claim.
C14_RequiresManualReview ==
    Reviewed =>
        /\ ret.result <=> \/ claim.total_amount > 1000
                          \/ DocScore < 500
                          \/ KeySeen
        /\ CheckedBefore => ret.result

C14_Witness ==
    /\ Reviewed /\ ret.result
    /\ claim.total_amount = 1000 /\ DocScore >= 500
    /\ CheckedBefore

----------------------------------------------------------------------------
\* the documented state machine over the claim status
Transitions ==
    {<<DRAFT, SUBMITTED>>}
    \cup ({SUBMITTED} \X {UNDER_REVIEW, APPROVED, REJECTED, PENDING_INFO})
    \cup ({UNDER_REVIEW, PENDING_INFO} \X {APPROVED, REJECTED})

\* the statuses s[1], s[2], ... are a walk of the state machine
Walk(s) == \A i \in 1..(Len(s) - 1) : <<s[i], s[i + 1]>> \in Transitions

\* C15: the status of a claim record only moves along draft -> submitted ->
\* {under_review, approved, rejected, pending_info}, under_review and
\* pending_info only into approved or rejected, and an approved or rejected
\* record never changes again, whatever is submitted and evaluated.
C15_StatusStateMachine ==
    [][ /\ \A i \in 1..Len(claims) :
               \/ claims'[i].status = claims[i].status
               \/ <<claims[i].status, claims'[i].status>> \in Transitions
        /\ Len(claims') > Len(claims) =>
               /\ ret'.history[Len(ret'.history)] = claims'[Len(claims')].status
               /\ Walk(ret'.history) ]_vars

----------------------------------------------------------------------------
\* every caller has returned
Finished == \A t \in Threads : threads[t].pc = "done"

\* the callers that passed key k, and those of them that got false
Callers(k) == {t \in Threads : threads[t].pc = "done" /\ threads[t].claim_key = k}
GotFalse(k) == {t \in Callers(k) : ~ threads[t].result}

\* on key k every membership test and the insert that followed it were one
\* atomic step: no other caller accessed k in between
Atomic(k) ==
    \A i, j, l \in 1..Len(events) :
        ( /\ i < j /\ j < l
          /\ events[i].claim_key = k /\ events[i].access = "test"
          /\ events[l].claim_key = k /\ events[l].access = "add"
          /\ events[l].thread = events[i].thread )
        => ~ (events[j].claim_key = k /\ events[j].thread # events[i].thread)

\* C16: of the concurrent check_duplicate calls on one shared ClaimRules for
\* the same fresh key at least one returns false, and exactly one does only
\* if every membership test and its insert ran as one atomic step; the code
\* takes them as separate steps, so two calls can both return false.
C16_OneFalseOnlyIfAtomic ==
    Finished =>
        \A t \in Threads :
            LET k == threads[t].claim_key
            IN  /\ Cardinality(GotFalse(k)) >= 1
                /\ Cardinality(GotFalse(k)) = 1 <=> Atomic(k)

\* an interleaving in which two calls return false for the same key
C16_Witness ==
    /\ Finished
    /\ \E t, u \in Threads :
           /\ t # u
           /\ threads[t].claim_key = threads[u].claim_key
           /\ ~ threads[t].result /\ ~ threads[u].result

----------------------------------------------------------------------------
\* C17: validate_provider_npi accepts "1234567893" with (true, none) and
\* rejects "1234567890" with the checksum error, and validate_all returns no
\* errors for the record of test_valid_claim_data, whose provider_id is
\* "1234567893".
C17_TestedNpis ==
    /\ (ret.op = "validate_provider_npi" /\ arg = Some(Npi1234567893))
           => ret.result = Valid
    /\ (ret.op = "validate_provider_npi" /\ arg = Some(Npi1234567890))
           => ret.result = Invalid("Invalid NPI checksum")
    /\ (ret.op = "validate_all" /\ DOMAIN arg = DOMAIN valid_claim_data)
           => (arg = valid_claim_data => ret.errors = <<>>)

\* the raw Luhn sum of a text of digits: the rightmost digit as it is, every
\* second digit moving left doubled and replaced by the sum of its digits
RECURSIVE LuhnSum(_, _)
LuhnSum(digits, i) ==
    IF i > Len(digits) THEN 0
    ELSE LET d == int(digits[i])
         IN  (IF (Len(digits) - i) % 2 = 0 THEN d
              ELSE ((2 * d) \div 10) + ((2 * d) % 10))
             + LuhnSum(digits, i + 1)

\* the NPI without its spaces and hyphens
Unseparated(npi) == SelectSeq(npi, LAMBDA ch : ch \notin Whitespace \cup {"-"})

TenDigits(text) == Len(text) = 10 /\ \A i \in 1..10 : IsDigit(text[i])

DiagnosisChecks(codes) ==
    [i \in 1..Len(codes) |->
        [prefix |-> "Diagnosis code", code |-> codes[i],
         result |-> validate_diagnosis_code(codes[i])]]
ProcedureChecks(codes) ==
    [i \in 1..Len(codes) |->
        [prefix |-> "Procedure code", code |-> codes[i],
         result |-> validate_procedure_code(codes[i])]]
Checks(data) ==
    (IF "patient_id" \in DOMAIN data
     THEN <<[prefix |-> "Patient ID", code |-> <<>>,
             result |-> validate_patient_id(data["patient_id"])]>>
     ELSE <<>>)
    \o (IF "provider_id" \in DOMAIN data
        THEN <<[prefix |-> "Provider NPI", code |-> <<>>,
                result |-> validate_provider_npi(data["provider_id"])]>>
        ELSE <<>>)
    \o (IF "total_amount" \in DOMAIN data
        THEN <<[prefix |-> "Amount", code |-> <<>>,
                result |-> validate_amount(data["total_amount"])]>>
        ELSE <<>>)
    \o (IF "diagnosis_codes" \in DOMAIN data
        THEN DiagnosisChecks(data["diagnosis_codes"])
        ELSE <<>>)
    \o (IF "procedure_codes" \in DOMAIN data
        THEN ProcedureChecks(data["procedure_codes"])
        ELSE <<>>)

Failing(check) == ~ check.result.is_valid
FailedChecks == SelectSeq(Checks(arg), Failing)

\* C19: validate_all returns one prefixed error for each failing check and
\* nothing else, in the order patient id, provider NPI, amount, diagnosis
\* codes in list order, procedure codes in list order; an absent field gives
\* no error, the empty map gives the empty list, and the list is empty exactly
\* when every field that is present passes its validator.
C19_ErrorsInOrder ==
    ret.op = "validate_all" =>
        /\ Len(ret.errors) = Len(FailedChecks)
        /\ \A i \in 1..Len(FailedChecks) :
               /\ ret.errors[i].prefix = FailedChecks[i].prefix
               /\ ret.errors[i].code = FailedChecks[i].code
               /\ Some(ret.errors[i].error) = FailedChecks[i].result.error
        /\ DOMAIN arg = {} => ret.errors = <<>>
        /\ ret.errors = <<>> <=>
               \A i \in 1..Len(Checks(arg)) : Checks(arg)[i].result.is_valid

C19_Witness ==
    /\ ret.op = "validate_all"
    /\ DOMAIN arg = {"provider_id", "total_amount", "diagnosis_codes",
                     "procedure_codes"}
    /\ Len(ret.errors) = 6
    /\ ret.errors[1].prefix = "Provider NPI"
    /\ ret.errors[2].prefix = "Amount"
    /\ ret.errors[4].prefix = "Diagnosis code" /\ Len(ret.errors[4].code) = 4
    /\ ret.errors[6].prefix = "Procedure code" /\ Len(ret.errors[6].code) = 4

----------------------------------------------------------------------------
\* C20: every claim record has a total_amount above 0 in every reachable
\* state, right after a successful construction and after any later field
\* assignment, so the decision engine never evaluates a record with a zero or
\* negative amount.
C20_AmountPositive ==
    /\ claim.total_amount > 0
    /\ Evaluated => claim.total_amount > 0

----------------------------------------------------------------------------
\* the step from an evaluation of the held claim to requires_manual_review of
\* the same claim
ReviewAfterEvaluation ==
    /\ Evaluated /\ PassesChecks
    /\ ret'.op = "requires_manual_review" /\ ret'.raised = ""
    /\ claim' = claim

\* C21: the engine's thresholds are in sync with those of ClaimRules: the
\* evaluation takes an amount as eligible for auto-approval (a fresh, fully
\* documented claim is approved) exactly when requires_manual_review does not
\* flag the claim as high-value (it goes on to the documentation and
\* duplicate tests), and the evaluation finds the documentation insufficient
\* exactly when requires_manual_review does.
C21_ThresholdsInSync ==
    [][ ReviewAfterEvaluation =>
          /\ (~ KeySeen /\ DocScore = 1000) =>
                 (ret.status = APPROVED <=>
                    ~ (ret'.result /\ ret'.dup_check = None))
          /\ claim.total_amount < 1000 =>
                 (ret.status = PENDING_INFO <=>
                    (ret'.result /\ ret'.dup_check = None)) ]_vars

----------------------------------------------------------------------------
\* C22: evaluate_claim completes on every well-formed claim in every ledger
\* state with a status among pending_info, rejected, under_review and
\* approved, never draft or submitted, and with at least one reason; for a
\* draft claim with valid basic info, an amount within the limit and a date
\* inside the window the status is approved, under_review or pending_info.
C22_OutputSpace ==
    Evaluated =>
        /\ ret.status \in {PENDING_INFO, REJECTED, UNDER_REVIEW, APPROVED}
        /\ ret.status \notin {DRAFT, SUBMITTED}
        /\ Len(ret.reasons) >= 1
        /\ (claim.status = DRAFT /\ PassesChecks) =>
               ret.status \in {APPROVED, UNDER_REVIEW, PENDING_INFO}

C22_Witness ==
    /\ Evaluated /\ claim.status = DRAFT /\ PassesChecks
    /\ claim.total_amount = MAX_CLAIM_AMOUNT
    /\ KeySeen
    /\ ret.status = UNDER_REVIEW /\ Len(ret.reasons) = 2

----------------------------------------------------------------------------
\* the date ten years before the clock's, the day before a leap day when
\* that year has none
TenYearsAgo(today) ==
    [today EXCEPT !.year = @ - 10,
                  !.day = IF @ > days_in_month(today.year - 10, today.month)
                          THEN days_in_month(today.year - 10, today.month)
                          ELSE @]

\* C23: validate_date_range returns an (is_valid, message) pair without
\* raising for every start and end date at every current calendar date, leap
\* days included, and is_valid is true exactly when start <= end, end is not
\* in the future and start is not more than 10 years in the past.
C23_DateRangePair ==
    ret.op = "validate_date_range" =>
        /\ ret.raised = ""
        /\ ret.result.is_valid \in BOOLEAN
        /\ ret.result.is_valid <=>
               /\ ~ Earlier(arg.end_date, arg.start_date)
               /\ ~ Earlier(arg.utcnow, arg.end_date)
               /\ ~ Earlier(arg.start_date, TenYearsAgo(arg.utcnow))

\* away from a leap day the call returns its pair as C23 says
C23_ReturnsPairOffLeapDay ==
    (ret.op = "validate_date_range"
        /\ ~ (arg.utcnow.month = 2 /\ arg.utcnow.day = 29)) =>
        /\ ret.raised = ""
        /\ ret.result.is_valid <=>
               /\ ~ Earlier(arg.end_date, arg.start_date)
               /\ ~ Earlier(arg.utcnow, arg.end_date)
               /\ ~ Earlier(arg.start_date, TenYearsAgo(arg.utcnow))

----------------------------------------------------------------------------
\* the most recent call was an evaluation on the further engine e
EvaluatedOn(e) ==
    Evaluated /\ "engine" \in DOMAIN ret /\ ret.engine = e

\* C24: the ledger belongs to one ClaimRules instance: a new DecisionEngine
\* starts with an empty ledger, an evaluation changes no ledger but that of
\* the engine it ran on, and it flags a duplicate exactly when the key is in
\* that engine's own ledger, so that a claim evaluated on one engine is not a
\* duplicate on another.
C24_LedgerPerEngine ==
    [][ /\ Len(engines') > Len(engines) =>
               engines'[Len(engines')] = {}
        /\ \A f \in DOMAIN engines :
               engines'[f] # engines[f] => EvaluatedOn(f)'
        /\ processed_claims' # processed_claims =>
               (Evaluated' /\ "engine" \notin DOMAIN ret')
        /\ \A e \in DOMAIN engines :
               (EvaluatedOn(e)' /\ PassesChecks') =>
                   (ret'.reasons[1] = PotentialDuplicate
                        <=> claim_key(claim) \in engines[e]) ]_vars

C24_Witness ==
    /\ Len(engines) = 2
    /\ EvaluatedOn(2) /\ PassesChecks
    /\ claim_key(claim) \in processed_claims
    /\ engines[1] = {claim_key(claim)}
    /\ seen = {}
    /\ ret.reasons[1] # PotentialDuplicate
    /\ ret.status = APPROVED

----------------------------------------------------------------------------
\* the results of evaluate_claim called on the claims cs one at a time, in
\* their order, on an engine whose ledger is pc, the clock reading ts[i] in
\* the i-th call
RECURSIVE Sequential(_, _, _)
Sequential(cs, pc, ts) ==
    IF cs = <<>> THEN <<>>
    ELSE LET r == evaluate_claim(Head(cs), pc, Head(ts))
         IN  <<r>> \o Sequential(Tail(cs), r.processed_claims, Tail(ts))

\* the times at which the members of the batch may have been evaluated
BatchTimes ==
    {ts \in [1..Len(arg) -> T0..now] :
        \A i \in 1..(Len(arg) - 1) : ts[i] <= ts[i + 1]}

\* details[i] carries what the i-th sequential evaluation returns
AsSequential ==
    \E ts \in BatchTimes :
        LET rs == Sequential(arg, seen, ts)
        IN  \A i \in 1..Len(arg) :
                /\ ret.details[i].status = rs[i].status
                /\ ret.details[i].reasons = rs[i].reasons
                /\ ret.details[i].confidence = rs[i].confidence

\* claim c gets as far as the duplicate check
ReachesDuplicateCheck(c) ==
    /\ validate_basic_info(c)
    /\ 0 < c.total_amount /\ c.total_amount <= MAX_CLAIM_AMOUNT
    /\ check_service_date(c, now)

Flagged(i) ==
    \E k \in 1..Len(ret.details[i].reasons) :
        ret.details[i].reasons[k] = PotentialDuplicate

\* claim c is complete: valid basic info, a date in the window and every
\* documentation item
Complete(c) ==
    /\ ReachesDuplicateCheck(c)
    /\ check_documentation(c) = 1000

\* a batch of complete claims below 1000 with pairwise distinct fresh keys
\* is all approved
FreshBatchApproved ==
    ( /\ \A i \in 1..Len(arg) :
             /\ Complete(arg[i]) /\ arg[i].total_amount < 1000
             /\ claim_key(arg[i]) \notin seen
      /\ \A i, j \in 1..Len(arg) :
             i # j => claim_key(arg[i]) # claim_key(arg[j]) ) =>
        /\ \A i \in 1..Len(arg) : ret.details[i].status = APPROVED
        /\ ret.approved = Len(arg)

\* C25 as stated: process_batch gives what evaluating the claims one at a
\* time in input order on the same engine gives; a batch member whose key
\* equals that of an earlier member that reached the duplicate check is
\* flagged as a potential duplicate; a batch of complete claims below 1000
\* with pairwise distinct fresh keys is all approved.
C25_Original ==
    Batched =>
        /\ AsSequential
        /\ \A i, j \in 1..Len(arg) :
               ( /\ i < j
                 /\ claim_key(arg[i]) = claim_key(arg[j])
                 /\ ReachesDuplicateCheck(arg[i]) ) => Flagged(j)
        /\ FreshBatchApproved

\* C25 as amended: the same, the flag being for a batch member that itself
\* passes the basic info, amount and date checks and whose key equals that of
\* an earlier member that reached the duplicate check or is in the ledger
\* left by earlier calls.
C25_BatchAsSequence ==
    Batched =>
        /\ AsSequential
        /\ \A i, j \in 1..Len(arg) :
               ( /\ i < j
                 /\ claim_key(arg[i]) = claim_key(arg[j])
                 /\ ReachesDuplicateCheck(arg[i])
                 /\ ReachesDuplicateCheck(arg[j]) ) => Flagged(j)
        /\ \A j \in 1..Len(arg) :
               ( /\ claim_key(arg[j]) \in seen
                 /\ ReachesDuplicateCheck(arg[j]) ) => Flagged(j)
        /\ FreshBatchApproved

C25_Witness ==
    /\ Batched /\ Len(arg) = 2
    /\ seen = {claim_key(valid_claim)}
    /\ claim_key(arg[1]) = claim_key(arg[2])
    /\ ret.details[1].status = PENDING_INFO
    /\ ret.details[1].reasons = <<InsufficientDocumentation>>
    /\ Flagged(2) /\ ret.details[2].status = UNDER_REVIEW

----------------------------------------------------------------------------
\* C26: evaluate_claim changes the ledger by at most one key and only when
\* the pipeline reaches the duplicate step: a call that returns at the basic
\* info, amount or date step leaves the ledger as it was, a call that reaches
\* the duplicate step with a fresh key adds exactly that key, a call that
\* finds the key adds nothing, and no call removes a key.
C26_LedgerFrame ==
    Evaluated =>
        /\ seen \subseteq processed_claims
        /\ Cardinality(processed_claims \ seen) <= 1
        /\ ~ PassesChecks => processed_claims = seen
        /\ (PassesChecks /\ ~ KeySeen) =>
               processed_claims = seen \cup {claim_key(claim)}
        /\ (PassesChecks /\ KeySeen) => processed_claims = seen

C26_Witness ==
    /\ Evaluated /\ PassesChecks /\ ~ KeySeen
    /\ Cardinality(seen) = 2
    /\ processed_claims = seen \cup {claim_key(claim)}
    /\ claim.description = None
    /\ ret.status = UNDER_REVIEW /\ ret.confidence = 800

----------------------------------------------------------------------------
\* the evaluation flagged the claim as a duplicate
FlaggedDuplicate ==
    \E i \in 1..Len(ret.reasons) : ret.reasons[i] = PotentialDuplicate

\* C27: a claim that evaluate_claim flags as a duplicate is never approved:
\* whenever the reasons contain "Potential duplicate claim detected" the
\* confidence is at most 0.7 and the status is under_review or pending_info,
\* for every amount and every documentation level.
C27_DuplicateNeverApproved ==
    (Evaluated /\ FlaggedDuplicate) =>
        /\ ret.confidence <= 700
        /\ ret.status \in {UNDER_REVIEW, PENDING_INFO}
        /\ ret.status # APPROVED

C27_Witness ==
    /\ Evaluated /\ FlaggedDuplicate
    /\ claim.total_amount = 600 /\ CompleteDocumentation
    /\ ret.status = UNDER_REVIEW /\ ret.confidence = 700

----------------------------------------------------------------------------
\* the evaluation sent the claim back for its documentation
PendingDocumentation ==
    /\ Evaluated
    /\ ret.status = PENDING_INFO
    /\ LastReason = InsufficientDocumentation

\* C28 as stated: a claim sent back as pending_info for insufficient
\* documentation is recorded in the ledger, the ledger keeps its keys, and
\* every later evaluation on the engine of a claim with a recorded patient id,
\* service day and amount is flagged as a duplicate and is not approved.
C28_Original ==
    [][ Evaluated' =>
          /\ PendingDocumentation' => claim_key(claim') \in processed_claims'
          /\ processed_claims \subseteq processed_claims'
          /\ claim_key(claim) \in processed_claims =>
                 /\ FlaggedDuplicate'
                 /\ ret'.status # APPROVED ]_vars

\* C28 as amended: the same, the later evaluation being flagged as a
\* duplicate when the claim passes the basic info, amount and date checks, and
\* not approved in any case.
C28_PendingIsRecorded ==
    [][ Evaluated' =>
          /\ PendingDocumentation' => claim_key(claim') \in processed_claims'
          /\ processed_claims \subseteq processed_claims'
          /\ claim_key(claim) \in processed_claims =>
                 /\ PassesChecks' => FlaggedDuplicate'
                 /\ ret'.status # APPROVED ]_vars

\* the claim evaluated again with its documentation complete
C28_Witness ==
    /\ Evaluated /\ was_checked /\ KeySeen
    /\ CompleteDocumentation /\ claim.total_amount = 500
    /\ Cardinality(seen) = 2
    /\ FlaggedDuplicate
    /\ ret.status = UNDER_REVIEW

----------------------------------------------------------------------------
\* the held claim with a provider id if it has none, and without if it has one
OtherProvider ==
    [claim EXCEPT !.provider_id =
        IF HasProvider THEN None ELSE Some("1234567893")]

\* C29: evaluate_claim returns approved exactly when the claim has valid
\* basic info, an amount above 0 and below 1000, a service date inside the
\* window, a key not yet in the ledger, a description longer than 10
\* characters, a diagnosis code and a procedure code; a provider id changes
\* the confidence (1.0 with it, 0.9 without) and never the approval, and a
\* claim with both kinds of codes and a provider id but no description longer
\* than 10 characters scores exactly 0.8 and goes to under_review.
C29_ApprovedIff ==
    Evaluated =>
        /\ ret.status = APPROVED <=>
               /\ BasicInfoOk
               /\ 0 < claim.total_amount /\ claim.total_amount < 1000
               /\ InWindow
               /\ ~ KeySeen
               /\ DescriptionPoints = 10
               /\ HasDiagnosis /\ HasProcedure
        /\ ret.status = APPROVED =>
               ret.confidence = (IF HasProvider THEN 1000 ELSE 900)
        /\ ret.status = APPROVED <=>
               evaluate_claim(OtherProvider, seen, now).status = APPROVED
        /\ ( /\ PassesChecks /\ ~ KeySeen
             /\ HasDiagnosis /\ HasProcedure /\ HasProvider
             /\ DescriptionPoints = 0 ) =>
               /\ DocScore = 800
               /\ ret.status = UNDER_REVIEW /\ ret.confidence = 800

C29_Witness ==
    /\ Evaluated /\ ~ HasProvider
    /\ ret.status = APPROVED /\ ret.confidence = 900

----------------------------------------------------------------------------
\* requires_manual_review returned true for the amount or the documentation
ReviewForAmountOrDocumentation ==
    /\ Reviewed /\ ret.result
    /\ (claim.total_amount > 1000 \/ DocScore < 500)

\* C30 as stated: when requires_manual_review(c) has returned false, the
\* evaluate_claim(c) that follows on the same engine detects a duplicate and
\* does not return approved; and requires_manual_review leaves the ledger as
\* it was whenever it returns true because of the amount or the documentation
\* score.
C30_Original ==
    [][ /\ (Reviewed /\ ~ ret.result /\ Evaluated' /\ claim' = claim) =>
               /\ FlaggedDuplicate'
               /\ ret'.status # APPROVED
        /\ ReviewForAmountOrDocumentation' =>
               processed_claims' = processed_claims ]_vars

\* C30 as amended: when requires_manual_review(c) has returned false the key
\* of c is in the ledger, and the evaluate_claim(c) that follows on the same
\* engine does not return approved and detects a duplicate if c passes the
\* basic info, amount and date checks; and requires_manual_review leaves the
\* ledger as it was whenever it returns true because of the amount or the
\* documentation score.
C30_PeekPoisons ==
    [][ /\ (Reviewed' /\ ~ ret'.result) =>
               claim_key(claim') \in processed_claims'
        /\ (Reviewed /\ ~ ret.result /\ Evaluated' /\ claim' = claim) =>
               /\ PassesChecks' => FlaggedDuplicate'
               /\ ret'.status # APPROVED
        /\ ReviewForAmountOrDocumentation' =>
               processed_claims' = processed_claims ]_vars

\* the evaluation of a complete claim below the threshold after
\* check_duplicate had run on it
C30_Witness ==
    /\ Evaluated /\ was_checked
    /\ seen = {claim_key(claim)}
    /\ CompleteDocumentation /\ claim.total_amount < AUTO_APPROVE_THRESHOLD
    /\ ret.reasons = <<PotentialDuplicate, ManualReview>>
    /\ ret.status = UNDER_REVIEW

====
